---------------------------- MODULE Spec2Model ----------------------------
(***************************************************************************)
(* Model of the Dragon Soul loot tracker: the CSV analyzer                 *)
(* (loot_analysis_enhanced.py), the CSV-to-JSON data processor             *)
(* (dragon-soul-loot/app/data_processor.py) and the JSON adapter           *)
(* (dragon-soul-loot/app/loot_analyzer_adapter.py) that feeds the          *)
(* analyzer's scorer from the processed JSON files.                        *)
(*                                                                         *)
(* Text is kept ASCII.  The non-ASCII letters of the source's player names *)
(* are written as digits, which no player name contains:                   *)
(*   "1" = u-grave   "2" = o-slash   "3" = i-acute   "4" = eth             *)
(*   "5" = i-grave   "6" = capital eth                                     *)
(* Every string keeps the length it has in Python.                         *)
(*                                                                         *)
(* Numbers: Python computes the scores in floating point; the model        *)
(* computes the same expressions exactly, as integers over a stated        *)
(* denominator (see AttendanceDen, ScoreDen).                              *)
(***************************************************************************)
EXTENDS Integers, Sequences, FiniteSets, TLC

VARIABLES
    participants_csv,   \* processed_data/*_participants.csv rows, in file order
    loot_csv,           \* processed_data/*_loot.csv rows, in file order
    cli,                \* the analyzer instance of the last command-line run
    cli_scores,         \* its scorer's per-player values
    cli_recs,           \* its recommendation sequence
    cli_error,          \* the exception that ended it, "" when it completed
    loot_history,       \* data/loot_history.json
    raid_sessions,      \* data/raid_sessions.json
    player_info_json,   \* data/player_info.json
    adapter,            \* loot_analyzer_adapter.loot_analyzer (the singleton)
    adapter_scores,     \* scorer values of the adapter's last recommendation call
    adapter_recs,       \* result of the adapter's last recommendation call
    loads,              \* number of LootAnalyzerAdapter.load_data calls so far
    active_raid_session,\* routes.active_raid_session: a reference to a session
    session_objects,    \* the session dicts the routes created
    raid_logs,          \* data/raid_logs/raid_session_<time>.json, by time
    clock,              \* datetime.now(), in seconds
    responses,          \* the responses of the raid-session routes so far
    active_connections, \* manager.active_connections
    last_messages,      \* manager.last_messages
    broadcasts,         \* the ConnectionManager.broadcast calls in flight
    finished,           \* the broadcast that ended last
    handlers,           \* the position of handle_websocket for each client
    peer_closed,        \* whether the client closed its end
    received            \* the messages each client received

analysis_vars ==
    <<participants_csv, loot_csv, cli, cli_scores, cli_recs, cli_error,
      loot_history, raid_sessions, player_info_json, adapter, adapter_scores,
      adapter_recs, loads>>

session_vars ==
    <<active_raid_session, session_objects, raid_logs, clock, responses>>

socket_vars ==
    <<active_connections, last_messages, broadcasts, finished, handlers,
      peer_closed, received>>

vars == <<analysis_vars, session_vars, socket_vars>>

-----------------------------------------------------------------------------
(* Bounds of the model.                                                    *)

MaxPartRows == 2
MaxLootRows == 2
MaxLoads == 2
MaxRequests == 5      \* calls of the raid-session routes
MaxClock == 1         \* seconds that pass
MaxBroadcasts == 2    \* broadcasts in flight
MaxReceived == 2      \* messages a client receives before the last broadcast
MaxSocketRequests == 2 \* calls of the raid-session routes beside the clients

-----------------------------------------------------------------------------
(* Python string operations, on TLC strings.                               *)

Max(a, b) == IF a >= b THEN a ELSE b

CharAt(s, i) == SubSeq(s, i, i)

\* x in s, for strings
Contains(x, s) ==
    \E i \in 1..(Len(s) - Len(x) + 1) : SubSeq(s, i, i + Len(x) - 1) = x

StartsWith(s, p) == Len(p) <= Len(s) /\ SubSeq(s, 1, Len(p)) = p

EndsWith(s, p) ==
    Len(p) <= Len(s) /\ SubSeq(s, Len(s) - Len(p) + 1, Len(s)) = p

UpperChars ==
    <<"A","B","C","D","E","F","G","H","I","J","K","L","M","N","O","P","Q",
      "R","S","T","U","V","W","X","Y","Z","6">>
LowerChars ==
    <<"a","b","c","d","e","f","g","h","i","j","k","l","m","n","o","p","q",
      "r","s","t","u","v","w","x","y","z","4">>

LowerOf ==
    [c \in {UpperChars[i] : i \in 1..Len(UpperChars)} |->
        LowerChars[CHOOSE i \in 1..Len(UpperChars) : UpperChars[i] = c]]

LowerChar(c) == IF c \in DOMAIN LowerOf THEN LowerOf[c] ELSE c

RECURSIVE LowerFrom(_, _)
LowerFrom(s, i) ==
    IF i > Len(s) THEN "" ELSE LowerChar(CharAt(s, i)) \o LowerFrom(s, i + 1)

\* str.lower()
Lower(s) == LowerFrom(s, 1)

\* str.strip(): leading and trailing blanks removed
RECURSIVE LStrip(_)
LStrip(s) ==
    IF Len(s) > 0 /\ CharAt(s, 1) = " " THEN LStrip(SubSeq(s, 2, Len(s))) ELSE s
RECURSIVE RStrip(_)
RStrip(s) ==
    IF Len(s) > 0 /\ CharAt(s, Len(s)) = " "
    THEN RStrip(SubSeq(s, 1, Len(s) - 1)) ELSE s
Strip(s) == LStrip(RStrip(s))

\* unicodedata.normalize('NFD', .) with the combining marks (category Mn)
\* dropped: u-grave, i-acute and i-grave decompose to a base letter and a
\* mark; o-slash and eth have no decomposition.
NFDBaseChar(c) ==
    IF c = "1" THEN "u" ELSE IF c = "3" \/ c = "5" THEN "i" ELSE c

RECURSIVE StripMarksFrom(_, _)
StripMarksFrom(s, i) ==
    IF i > Len(s) THEN ""
    ELSE NFDBaseChar(CharAt(s, i)) \o StripMarksFrom(s, i + 1)

StripMarks(s) == StripMarksFrom(s, 1)

\* Dictionary helpers: a dict is a function whose DOMAIN is its key set.
Get(d, k, default) == IF k \in DOMAIN d THEN d[k] ELSE default

Put(d, k, v) == [x \in DOMAIN d \cup {k} |-> IF x = k THEN v ELSE d[x]]

\* defaultdict(int)[k] += n
Inc(d, k, n) == Put(d, k, Get(d, k, 0) + n)

EmptyDict == [x \in {} |-> 0]

RECURSIVE SumSet(_, _)
SumSet(f, S) ==
    IF S = {} THEN 0
    ELSE LET x == CHOOSE y \in S : TRUE IN f[x] + SumSet(f, S \ {x})

SumValues(d) == SumSet(d, DOMAIN d)

-----------------------------------------------------------------------------
(* DragonSoulLootAnalyzer.__init__: configuration.                         *)

manual_mappings ==
    ("saoki" :> "saokipriest") @@ ("ruskov" :> "r1sk2v") @@
    ("pepsi" :> "peps3cola") @@ ("delusive" :> "4elusive") @@
    ("ricardo" :> "ricardom5los") @@ ("overdeath" :> "ooverdeath") @@
    ("borrann" :> "borran")

pug_identifiers == {"-pug", "-good pug"}

exclude_players == {"Ifbbathlete", "Andrewd", "Rewolut", "Corwor", "anotherpug"}

total_bosses == 8

\* file pattern -> bosses covered, in the dict's (insertion) order
file_to_bosses ==
    << <<"25man_58", 5>>, <<"10man_war_spine", 2>>, <<"10man_madness", 1>> >>


\* class -> its one primary stat, or its (spec, stat) pairs in dict order
class_to_primary_stat ==
    ("DK" :> [stat |-> "Strength"]) @@ ("Hunter" :> [stat |-> "Agility"]) @@
    ("Mage" :> [stat |-> "Intellect"]) @@ ("Priest" :> [stat |-> "Intellect"]) @@
    ("Rogue" :> [stat |-> "Agility"]) @@ ("Warlock" :> [stat |-> "Intellect"]) @@
    ("Warrior" :> [stat |-> "Strength"]) @@
    ("Druid" :> [specs |-> << <<"Balance", "Intellect">>, <<"Feral", "Agility">>,
                              <<"Restoration", "Intellect">> >>]) @@
    ("Paladin" :> [specs |-> << <<"Holy", "Intellect">>,
                                <<"Protection", "Strength">>,
                                <<"Retribution", "Strength">> >>]) @@
    ("Shaman" :> [specs |-> << <<"Elemental", "Intellect">>,
                               <<"Enhancement", "Agility">>,
                               <<"Restoration", "Intellect">> >>])

attendance_weight_x10 == 4        \* attendance_weight = 0.4
item_penalty_multiplier == 40
token_penalty_reduction_x10 == 5  \* token_penalty_reduction = 0.5
raid_25_percent_bonus_x100 == 25  \* raid_25_percent_bonus = 0.25

\* A fresh DragonSoulLootAnalyzer: every tally empty.
NewAnalyzer ==
    [player_info |-> <<>>, healers |-> {}, player_boss_attendance |-> <<>>,
     player_raid_size |-> <<>>, player_loot_count |-> <<>>,
     player_token_count |-> <<>>, player_item_slots |-> <<>>,
     name_mapping |-> <<>>, raid_participants |-> <<>>, loot_data |-> <<>>]

-----------------------------------------------------------------------------
(* Identity resolution.  A CSV cell that pandas reads as NaN (an empty     *)
(* cell) is the empty string; None is the empty string as well, which      *)
(* every caller tests with "not player_name".                              *)

IsNaN(cell) == cell = ""

\* the lower-cased names and markers is_pug compares with
exclude_players_lower == {Lower(name) : name \in exclude_players}
pug_identifiers_lower == {Lower(identifier) : identifier \in pug_identifiers}

\* as IsPugLower, without the check of the markers
IsOnExcludeList(player_lower) == Strip(player_lower) \in exclude_players_lower

\* is_pug, lines 295-301, on the lower-cased name
IsPugLower(player_lower) ==
    \/ Strip(player_lower) \in exclude_players_lower
    \/ \E identifier \in pug_identifiers_lower :
          Contains(identifier, player_lower)

is_pug(player_name) == IsNaN(player_name) \/ IsPugLower(Lower(player_name))

\* normalize_name, lines 280-285, on the lower-cased, stripped name
MapName(mapping, normalized) == Get(mapping, normalized, normalized)

normalize_name(an, name) ==
    IF IsNaN(name) THEN ""
    ELSE MapName(an.name_mapping, MapName(manual_mappings, Strip(Lower(name))))

get_player_primary_stat(player_class, player_spec) ==
    IF player_class \in DOMAIN class_to_primary_stat
    THEN LET stat_info == class_to_primary_stat[player_class]
         IN  IF "stat" \in DOMAIN stat_info THEN stat_info.stat
             ELSE LET specs == stat_info.specs
                  IN  IF \E i \in 1..Len(specs) : specs[i][1] = player_spec
                      THEN specs[CHOOSE i \in 1..Len(specs) :
                                     specs[i][1] = player_spec][2]
                      ELSE specs[1][2]
    ELSE "Unknown"

OrUnknown(cell) == IF IsNaN(cell) THEN "Unknown" ELSE cell

\* extract_player_info: the player's canonical name ("" for None) ...
extract_player_name(an, row) ==
    IF IsNaN(row.IGN) \/ is_pug(row.IGN) THEN "" ELSE normalize_name(an, row.IGN)

\* ... and the player info dictionary
extract_player_info(row) ==
    [Class |-> OrUnknown(row.Class), Spec |-> OrUnknown(row.Spec),
     Token |-> OrUnknown(row.Token), Role |-> OrUnknown(row.Role),
     Original_IGN |-> row.IGN,
     Primary_Stat |-> IF IsNaN(row.Class) THEN "Unknown"
                      ELSE get_player_primary_stat(row.Class, row.Spec)]

-----------------------------------------------------------------------------
(* The processed_data directory: the raid files and their rows.            *)

F_WAR_SPINE == "10man_war_spine___sunday_2402"
F_25MAN == "25man_58___sunday_2402"
F_ALT == "25man_alt___sunday_2402"

\* the raid files of the other reset, and the Madness files
F_MADNESS == "10man_madness___sunday_2402"
F_MADNESS_2502 == "10man_madness___monday_2502"
F_WAR_SPINE_2502 == "10man_war_spine___monday_2502"
F_25MAN_2502 == "25man_58___monday_2502"

\* os.listdir order of the raid files (taken alphabetical)
FileBases ==
    <<F_MADNESS_2502, F_MADNESS, F_WAR_SPINE_2502, F_WAR_SPINE,
      F_25MAN_2502, F_25MAN, F_ALT>>

ParticipantsFile(base) == base \o "_participants.csv"
LootFile(base) == base \o "_loot.csv"
AllParticipantsFile == "all_participants.csv"

\* update_player_data.PLAYER_INFO, for the names used here: the class, spec,
\* token and role columns of a row are filled from the row's IGN.
PLAYER_INFO ==
    ("Andrewd" :> [class |-> "Druid", spec |-> "Restoration", role |-> "Healer",
                   token |-> "Vanquisher"]) @@
    ("albear" :> [class |-> "Druid", spec |-> "Feral", role |-> "Offtank",
                  token |-> "Vanquisher"]) @@
    ("borran" :> [class |-> "Shaman", spec |-> "Elemental", role |-> "DPS",
                  token |-> "Protector"]) @@
    ("Peps3cola" :> [class |-> "Warrior", spec |-> "Arms", role |-> "DPS",
                     token |-> "Protector"]) @@
    ("saokipriest" :> [class |-> "Priest", spec |-> "Discipline",
                       role |-> "Healer", token |-> "Conqueror"])

NoInfo == [class |-> "", spec |-> "", role |-> "", token |-> ""]

ParticipantRow(file, ign) ==
    LET info == Get(PLAYER_INFO, ign, NoInfo)
    IN  [file |-> file, IGN |-> ign, Class |-> info.class, Spec |-> info.spec,
         Token |-> info.token, Role |-> info.role]

LootRow(file, ign, item) ==
    LET info == Get(PLAYER_INFO, ign, NoInfo)
    IN  [file |-> file, IGN |-> ign, Item |-> item, Class |-> info.class,
         Spec |-> info.spec, Token |-> info.token, Role |-> info.role]

\* The rows a participants file may hold, in the order they would stand.
ParticipantRowPool ==
    << ParticipantRow(F_WAR_SPINE, "albear"),
       ParticipantRow(F_25MAN, "albear"),
       ParticipantRow(F_25MAN, "saoki"),
       ParticipantRow(F_25MAN, "Peps3cola"),
       ParticipantRow(F_ALT, "borran"),
       ParticipantRow(F_ALT, "Zed-PUG"),
       ParticipantRow(F_ALT, "Andrewd") >>

\* The rows a loot file may hold, in the order they would stand.
LootRowPool ==
    << LootRow(F_25MAN, "albear", "Hood of Hidden Flesh"),
       LootRow(F_25MAN, "albear", "Crown of the Corrupted Vanquisher"),
       LootRow(F_25MAN, "saok", "Bottled Wishes"),
       LootRow(F_25MAN, "Pepsicola", "Souldrinker"),
       LootRow(F_ALT, "borran", "Gauntlets of the Corrupted Conqueror"),
       LootRow(F_ALT, "Zed-PUG", "Hood of Hidden Flesh") >>

\* The rows of pool at the positions in chosen, in pool order.
RECURSIVE PickFrom(_, _, _)
PickFrom(pool, chosen, i) ==
    IF i > Len(pool) THEN <<>>
    ELSE (IF i \in chosen THEN <<pool[i]>> ELSE <<>>) \o PickFrom(pool, chosen, i + 1)

RowSelections(pool, max) ==
    {PickFrom(pool, chosen, 1) :
        chosen \in {c \in SUBSET (1..Len(pool)) : Cardinality(c) <= max}}

-----------------------------------------------------------------------------
(* DragonSoulLootAnalyzer.initialize_item_categorization and the data      *)
(* processor's keyword table.                                              *)

\* slot -> importance weight, times 10
slot_categories_x10 ==
    ("head" :> 15) @@
    ("chest" :> 15) @@
    ("legs" :> 15) @@
    ("weapon" :> 15) @@
    ("trinket" :> 15) @@
    ("shoulder" :> 13) @@
    ("hands" :> 13) @@
    ("waist" :> 12) @@
    ("feet" :> 12) @@
    ("wrist" :> 11) @@
    ("neck" :> 10) @@
    ("finger" :> 10) @@
    ("back" :> 12) @@
    ("ranged" :> 10) @@
    ("off-hand" :> 12)

\* slot -> keywords, in dict order
slot_keywords ==
    << <<"head", {"helm", "hood", "crown", "cowl", "headpiece"}>>,
       <<"shoulder", {"shoulder", "spaulder", "mantle", "amice"}>>,
       <<"chest", {"chest", "robe", "tunic", "hauberk", "breastplate"}>>,
       <<"wrist", {"wrist", "bracer", "vambrace"}>>,
       <<"hands", {"glove", "gauntlet", "handguard", "hand"}>>,
       <<"waist", {"belt", "waist", "girdle", "cord", "sash"}>>,
       <<"legs", {"leg", "pant", "kilt", "legging", "greave"}>>,
       <<"feet", {"boot", "treads", "foot", "sandal", "shoe", "sabatons"}>>,
       <<"neck", {"neck", "necklace", "amulet", "choker", "collar"}>>,
       <<"finger", {"ring", "band", "seal", "signet", "loop"}>>,
       <<"back", {"cloak", "cape", "drape"}>>,
       <<"ranged", {"wand", "thrown", "gun", "bow", "crossbow", "arrow",
            "bullet"}>>,
       <<"off-hand", {"off-hand", "shield", "defender", "bulwark", "ward"}>>,
       <<"trinket", {"trinket", "charm", "fetish", "idol", "totem",
            "insignia",
            "vial"}>> >>

\* weapon type -> keywords, in dict order
weapon_types ==
    << <<"one_hand_sword", {"sword", "blade", "souldrinker"}>>,
       <<"one_hand_axe", {"axe", "no'kaled", "elements of death",
            "hand of morchok"}>>,
       <<"one_hand_mace", {"mace", "morningstar", "maw of the dragonlord"}>>,
       <<"two_hand_sword", {"greatsword", "two-handed sword", "gurthalak",
            "voice of the deeps"}>>,
       <<"two_hand_axe", {"greataxe", "two-handed axe",
            "experimental specimen slicer"}>>,
       <<"two_hand_mace", {"hammer", "maul", "two-handed mace", "ataraxis",
            "cudgel of the warmaster"}>>,
       <<"dagger", {"dagger", "knife", "kris", "dirk", "blade of the unmaker",
            "rathrak", "poisonous mind", "electrowing dagger",
            "scalpel of unrelenting agony"}>>,
       <<"fist", {"fist", "claw", "knuckle"}>>,
       <<"polearm", {"polearm", "halberd", "pike", "kiril",
            "fury of beasts"}>>,
       <<"staff", {"staff", "ti'tahk", "steps of time", "lightning rod",
            "spire of coagulated globules", "visage of the destroyer"}>>,
       <<"bow", {"bow", "vishanka", "jaws of the earth"}>>,
       <<"crossbow", {"crossbow", "horrifying horn arbalest"}>>,
       <<"gun", {"gun", "rifle", "shotgun", "ruinblaster shotgun"}>>,
       <<"wand", {"wand", "finger of zon'ozz"}>>,
       <<"thrown", {"thrown", "razor saronite chip"}>>,
       <<"shield", {"shield", "blackhorn's mighty bulwark",
            "timepiece of the bronze flight"}>>,
       <<"off_hand", {"off-hand", "held in off-hand", "dragonfire orb",
            "ledger of revolting rituals"}>> >>

\* token type -> slot -> importance, times 10
token_slot_importance_x10 ==
    ("Vanquisher" :>
        (("head" :> 15) @@ ("shoulder" :> 13) @@ ("chest" :> 15) @@
         ("hands" :> 13) @@ ("legs" :> 15))) @@
    ("Conqueror" :>
        (("head" :> 15) @@ ("shoulder" :> 13) @@ ("chest" :> 15) @@
         ("hands" :> 13) @@ ("legs" :> 15))) @@
    ("Protector" :>
        (("head" :> 15) @@ ("shoulder" :> 13) @@ ("chest" :> 15) @@
         ("hands" :> 13) @@ ("legs" :> 15)))

\* specific_item_mappings as __init__ sets it
base_item_mappings ==
    ("vishanka, jaws of the earth" :> "bow") @@
    ("rathrak, the poisonous mind" :> "dagger") @@
    ("gurthalak, voice of the deeps" :> "two_hand_sword") @@
    ("ti'tahk, the steps of time" :> "staff") @@
    ("kiril, fury of beasts" :> "polearm") @@
    ("souldrinker" :> "one_hand_sword") @@
    ("no'kaled, the elements of death" :> "one_hand_axe") @@
    ("blade of the unmaker" :> "dagger") @@
    ("maw of the dragonlord" :> "one_hand_mace") @@
    ("hand of morchok" :> "one_hand_axe") @@
    ("vagaries of time" :> "one_hand_mace") @@
    ("razor saronite chip" :> "thrown") @@
    ("finger of zon'ozz" :> "wand") @@
    ("horrifying horn arbalest" :> "crossbow") @@
    ("scalpel of unrelenting agony" :> "dagger") @@
    ("spire of coagulated globules" :> "staff") @@
    ("experimental specimen slicer" :> "two_hand_axe") @@
    ("electrowing dagger" :> "dagger") @@
    ("lightning rod" :> "staff") @@
    ("morningstar of heroic will" :> "one_hand_mace") @@
    ("ledger of revolting rituals" :> "off_hand") @@
    ("ataraxis, cudgel of the warmaster" :> "two_hand_mace") @@
    ("visage of the destroyer" :> "staff") @@
    ("blackhorn's mighty bulwark" :> "shield") @@
    ("timepiece of the bronze flight" :> "shield") @@
    ("ruinblaster shotgun" :> "gun") @@
    ("spine of the thousand cuts" :> "one_hand_sword") @@
    ("dragonfire orb" :> "off_hand")

\* the entries update_specific_item_mappings adds
added_item_mappings ==
    ("cunning of the cruel" :> "trinket") @@
    ("indomitable pride" :> "trinket") @@
    ("soulshifter vortex" :> "trinket") @@
    ("creche of the final dragon" :> "trinket") @@
    ("starcatcher compass" :> "trinket") @@
    ("eye of unmaking" :> "trinket") @@
    ("heart of unliving" :> "trinket") @@
    ("resolve of undying" :> "trinket") @@
    ("will of unbinding" :> "trinket") @@
    ("wrath of unchaining" :> "trinket") @@
    ("insignia of the corrupted mind" :> "trinket") @@
    ("seal of the seven signs" :> "trinket") @@
    ("petrified fungal heart" :> "neck") @@
    ("curled twilight claw" :> "finger") @@
    ("ring of the riven" :> "finger") @@
    ("signet of grasping mouths" :> "finger") @@
    ("imperfect specimens 27 and 28" :> "shoulder") @@
    ("nightblind cinch" :> "waist") @@
    ("interrogator's bloody footpads" :> "feet") @@
    ("mindstrainer treads" :> "feet") @@
    ("heartblood wristplates" :> "wrist") @@
    ("treads of sordid screams" :> "feet") @@
    ("bracers of looming darkness" :> "wrist") @@
    ("janglespur jackboots" :> "feet") @@
    ("shadow wing armbands" :> "wrist") @@
    ("belt of the beloved companion" :> "waist") @@
    ("goriona's collar" :> "waist") @@
    ("gloves of liquid smoke" :> "hands") @@
    ("molten blood footpads" :> "feet") @@
    ("belt of shattered elementium" :> "waist") @@
    ("backbreaker spaulders" :> "shoulder") @@
    ("gauntlets of the golden thorn" :> "hands")

\* DataProcessor slot -> keywords, in dict order
dp_slot_keywords ==
    << <<"Head", {"Crown", "Helm", "Hood", "Faceguard"}>>,
       <<"Neck", {"Necklace", "Choker", "Pendant", "Amulet"}>>,
       <<"Shoulder", {"Shoulderguards", "Spaulders", "Mantle", "Shoulders"}>>,
       <<"Back", {"Cloak", "Cape", "Drape"}>>,
       <<"Chest", {"Chestplate", "Robe", "Tunic", "Hauberk", "Vest",
            "Chest"}>>,
       <<"Wrist", {"Bracers", "Wristguards", "Wristplates"}>>,
       <<"Hands", {"Gloves", "Gauntlets", "Handguards", "Grips"}>>,
       <<"Waist", {"Belt", "Girdle", "Waistguard"}>>,
       <<"Legs", {"Leggings", "Legplates", "Legguards", "Greaves"}>>,
       <<"Feet", {"Boots", "Treads", "Sabatons", "Stompers"}>>,
       <<"Finger", {"Ring", "Band", "Seal", "Loop"}>>,
       <<"Trinket", {"Trinket", "Charm", "Orb", "Heart", "Insignia", "Eye"}>>,
       <<"Weapon", {"Sword", "Axe", "Mace", "Staff", "Dagger", "Bow", "Gun",
            "Wand", "Fist", "Glaive", "Spear", "Morningstar"}>>,
       <<"Shield", {"Shield", "Bulwark", "Aegis"}>>,
       <<"Relic", {"Idol", "Totem", "Libram", "Sigil"}>> >>


\* specific_item_mappings of the command-line run, whose __main__ calls
\* update_specific_item_mappings before the analysis
specific_item_mappings == added_item_mappings @@ base_item_mappings

-----------------------------------------------------------------------------
(* The analyzer's item classifier.                                         *)

\* extract_token_info: <<token, token_slot>>, with "" for None
extract_token_info(item_name) ==
    IF ~Contains("Corrupted", item_name) THEN <<"", "">>
    ELSE LET token ==
                 IF Contains("Vanquisher", item_name) THEN "Vanquisher"
                 ELSE IF Contains("Conqueror", item_name) THEN "Conqueror"
                 ELSE IF Contains("Protector", item_name) THEN "Protector"
                 ELSE ""
             token_slot ==
                 IF Contains("Helm", item_name) \/ Contains("Crown", item_name)
                 THEN "head"
                 ELSE IF \/ Contains("Shoulder", item_name)
                         \/ Contains("Spaulders", item_name)
                 THEN "shoulder"
                 ELSE IF Contains("Chest", item_name) \/ Contains("Robe", item_name)
                 THEN "chest"
                 ELSE IF \/ Contains("Gauntlet", item_name)
                         \/ Contains("Gloves", item_name)
                         \/ Contains("Hand", item_name)
                 THEN "hands"
                 ELSE IF \/ Contains("Leg", item_name)
                         \/ Contains("Kilt", item_name)
                         \/ Contains("Pants", item_name)
                 THEN "legs"
                 ELSE "unknown"
         IN  IF token = "" THEN <<"", "">> ELSE <<token, token_slot>>

AnyKeywordIn(keywords, text) == \E keyword \in keywords : Contains(keyword, text)

\* index of the first entry of an ordered keyword table matching text, or 0
RECURSIVE FirstMatchFrom(_, _, _)
FirstMatchFrom(table, text, i) ==
    IF i > Len(table) THEN 0
    ELSE IF AnyKeywordIn(table[i][2], text) THEN i
    ELSE FirstMatchFrom(table, text, i + 1)

FirstMatch(table, text) == FirstMatchFrom(table, text, 1)

WeaponTypeNames == {weapon_types[i][1] : i \in 1..Len(weapon_types)}

TrinketKeywords ==
    slot_keywords[CHOOSE i \in 1..Len(slot_keywords) :
                      slot_keywords[i][1] = "trinket"][2]

\* determine_item_slot, lines 1039-1048: weapon is the index of the first
\* weapon type with a keyword in the name
WeaponSlot(weapon) ==
    IF weapon_types[weapon][1] \in {"bow", "gun", "crossbow", "wand", "thrown"}
    THEN "ranged"
    ELSE IF weapon_types[weapon][1] \in {"shield", "off_hand"} THEN "off-hand"
    ELSE "weapon"

\* lines 1050-1058: slot is the index of the first slot with a keyword in
\* the name
KeywordSlot(slot) == IF slot # 0 THEN slot_keywords[slot][1] ELSE "unknown"

\* lines 1038-1058
SlotByKeywords(item_name_lower, weapon) ==
    IF AnyKeywordIn(TrinketKeywords, item_name_lower) THEN "trinket"
    ELSE IF weapon # 0 THEN WeaponSlot(weapon)
    ELSE KeywordSlot(FirstMatch(slot_keywords, item_name_lower))

\* lines 1021-1058
SlotOf(item_name_lower, token_info) ==
    IF item_name_lower \in DOMAIN specific_item_mappings
    THEN (IF specific_item_mappings[item_name_lower] \in WeaponTypeNames
          THEN "weapon"
          ELSE specific_item_mappings[item_name_lower])
    ELSE IF token_info[1] # "" /\ token_info[2] # "unknown" THEN token_info[2]
    ELSE SlotByKeywords(item_name_lower,
                        FirstMatch(weapon_types, item_name_lower))

determine_item_slot(item_name) ==
    IF item_name = "" THEN "unknown"
    ELSE SlotOf(Lower(item_name), extract_token_info(item_name))

-----------------------------------------------------------------------------
(* process_raid_data: the consolidated all_participants.csv.               *)

\* Python's string order over the IGNs of the row pools; an empty IGN is
\* filled with '' (line 130) and sorts first
IGNOrder ==
    <<"", "Andrewd", "Peps3cola", "Pepsicola", "Zed-PUG", "albear", "borran",
      "borrann", "saok", "saoki", "saokipriest">>

IGNRank(ign) == CHOOSE i \in 1..Len(IGNOrder) : IGNOrder[i] = ign

\* consolidated.drop_duplicates(subset=['IGN']): the first row of each IGN
RECURSIVE DropDuplicateIGN(_, _)
DropDuplicateIGN(rows, i) ==
    IF i > Len(rows) THEN <<>>
    ELSE (IF \E j \in 1..(i - 1) : rows[j].IGN = rows[i].IGN
          THEN <<>> ELSE <<rows[i]>>) \o DropDuplicateIGN(rows, i + 1)

\* consolidated.sort_values('IGN')
RECURSIVE SortByIGN(_, _)
SortByIGN(rows, rank) ==
    IF rank > Len(IGNOrder) THEN <<>>
    ELSE SelectSeq(rows, LAMBDA r : IGNRank(r.IGN) = rank)
             \o SortByIGN(rows, rank + 1)

all_participants_csv(participant_rows) ==
    SortByIGN(DropDuplicateIGN(participant_rows, 1), 1)

RowsOfFile(rows, base) == SelectSeq(rows, LAMBDA r : r.file = base)

\* The participants files of the directory, in os.listdir order, each with
\* its rows.  A raid file is there when it has a row; all_participants.csv
\* is there when any participants file is, and it ends with
\* "_participants.csv" like the raid files.
RECURSIVE RaidParticipantFiles(_, _)
RaidParticipantFiles(participant_rows, i) ==
    IF i > Len(FileBases) THEN <<>>
    ELSE (IF RowsOfFile(participant_rows, FileBases[i]) = <<>> THEN <<>>
          ELSE << [filename |-> ParticipantsFile(FileBases[i]),
                   rows |-> RowsOfFile(participant_rows, FileBases[i])] >>)
         \o RaidParticipantFiles(participant_rows, i + 1)

ParticipantFiles(participant_rows) ==
    RaidParticipantFiles(participant_rows, 1) \o
    (IF participant_rows = <<>> THEN <<>>
     ELSE << [filename |-> AllParticipantsFile,
              rows |-> all_participants_csv(participant_rows)] >>)

RECURSIVE LootFiles(_, _)
LootFiles(loot_rows, i) ==
    IF i > Len(FileBases) THEN <<>>
    ELSE (IF RowsOfFile(loot_rows, FileBases[i]) = <<>> THEN <<>>
          ELSE << [filename |-> LootFile(FileBases[i]),
                   rows |-> RowsOfFile(loot_rows, FileBases[i])] >>)
         \o LootFiles(loot_rows, i + 1)

-----------------------------------------------------------------------------
(* DragonSoulLootAnalyzer.load_data.                                       *)

\* load_data, lines 465-473: one row of all_participants.csv
AddKnownPlayer(an, player_name, player_info) ==
    IF player_name = "" THEN an
    ELSE [an EXCEPT
             !.player_info = Put(@, player_name, player_info),
             !.healers = IF player_info.Role = "Healer"
                         THEN @ \cup {player_name} ELSE @]

LoadKnownPlayer(an, row) ==
    AddKnownPlayer(an, extract_player_name(an, row), extract_player_info(row))

RECURSIVE LoadKnownPlayers(_, _, _)
LoadKnownPlayers(an, rows, i) ==
    IF i > Len(rows) THEN an
    ELSE LoadKnownPlayers(LoadKnownPlayer(an, rows[i]), rows, i + 1)

OoverdeathInfo ==
    [Class |-> "DK", Spec |-> "Blood", Token |-> "Vanquisher",
     Role |-> "Main Tank", Original_IGN |-> "overdeath",
     Primary_Stat |-> "Strength"]

\* load_data, lines 460-486
\* lines 475-486
AddOoverdeath(an) ==
    IF "ooverdeath" \in DOMAIN an.player_info THEN an
    ELSE [an EXCEPT !.player_info = Put(@, "ooverdeath", OoverdeathInfo)]

LoadAllParticipants(an, participant_rows) ==
    IF participant_rows = <<>> THEN an
    ELSE AddOoverdeath(
             LoadKnownPlayers(an, all_participants_csv(participant_rows), 1))

\* load_data, lines 495-500
BossesKilled(filename) ==
    IF \E i \in 1..Len(file_to_bosses) : Contains(file_to_bosses[i][1], filename)
    THEN file_to_bosses[CHOOSE i \in 1..Len(file_to_bosses) :
            /\ Contains(file_to_bosses[i][1], filename)
            /\ \A j \in 1..(i - 1) : ~Contains(file_to_bosses[j][1], filename)][2]
    ELSE 0

RaidSize(filename) == IF Contains("25man", filename) THEN "25" ELSE "10"

\* load_data, lines 506-510: one row of a participants file
AddAttendance(an, filename, player_name) ==
    IF player_name = "" THEN an
    ELSE [an EXCEPT
             !.player_boss_attendance =
                 Inc(@, player_name, BossesKilled(filename)),
             !.player_raid_size =
                 Put(@, player_name,
                     Get(@, player_name, {}) \cup {RaidSize(filename)})]

LoadParticipantRow(an, filename, row) ==
    AddAttendance(an, filename, extract_player_name(an, row))

RECURSIVE LoadParticipantRows(_, _, _, _)
LoadParticipantRows(an, filename, rows, i) ==
    IF i > Len(rows) THEN an
    ELSE LoadParticipantRows(LoadParticipantRow(an, filename, rows[i]),
                             filename, rows, i + 1)

\* load_data, lines 489-510
RECURSIVE LoadParticipantFiles(_, _, _)
LoadParticipantFiles(an, files, i) ==
    IF i > Len(files) THEN an
    ELSE LoadParticipantFiles(
             LoadParticipantRows(
                 [an EXCEPT !.raid_participants = Append(@, files[i])],
                 files[i].filename, files[i].rows, 1),
             files, i + 1)

\* the lower-cased, stripped IGNs of the rows of a list of (file, rows)
IGNsOf(files) ==
    UNION {{Strip(Lower(files[i].rows[j].IGN)) :
               j \in {k \in 1..Len(files[i].rows) : ~IsNaN(files[i].rows[k].IGN)}} :
           i \in 1..Len(files)}

\* identify_name_variations, lines 387-397: the participant names a loot
\* name may be mapped to
NameMatches(loot_name, participant_names) ==
    {part_name \in participant_names :
        \/ StartsWith(loot_name, part_name)
        \/ StartsWith(part_name, loot_name)
        \/ StripMarks(loot_name) = StripMarks(part_name)}

\* identify_name_variations, lines 380-397: the loot names that get mapped
MappedNames(loot_names, participant_names) ==
    {loot_name \in loot_names :
        /\ loot_name \notin DOMAIN manual_mappings
        /\ loot_name \notin participant_names
        /\ NameMatches(loot_name, participant_names) # {}}

\* ... and the mappings that may result
NameMappings(name_mapping, mapped, participant_names) ==
    {[name \in mapped \cup DOMAIN name_mapping |->
         IF name \in mapped THEN choice[name] ELSE name_mapping[name]] :
     choice \in {c \in [mapped -> participant_names] :
                    \A name \in mapped :
                        c[name] \in NameMatches(name, participant_names)}}

NameVariations(name_mapping, loot_names, participant_names) ==
    NameMappings(name_mapping, MappedNames(loot_names, participant_names),
                 participant_names)

\* identify_name_variations: the name mappings it may leave in
\* self.name_mapping.  It reads self.loot_data and self.raid_participants;
\* the participant names are a set, so which of several matches comes first
\* is not fixed.
identify_name_variations(an) ==
    NameVariations(an.name_mapping, IGNsOf(an.loot_data),
                   IGNsOf(an.raid_participants))

IncNested(d, k1, k2) == Put(d, k1, Inc(Get(d, k1, <<>>), k2, 1))

\* load_data, lines 557-565: the token tallies of an item
TallyToken(an, player_name, token_info) ==
    IF token_info[1] = "" THEN an
    ELSE [an EXCEPT
             !.player_token_count = IncNested(@, player_name, token_info[1]),
             !.player_item_slots =
                 IF token_info[2] # "unknown"
                 THEN IncNested(@, player_name, token_info[2])
                 ELSE @]

\* load_data, lines 568-570: the slot tally of an item
TallySlot(an, player_name, item_slot) ==
    IF item_slot # "unknown"
    THEN [an EXCEPT !.player_item_slots = IncNested(@, player_name, item_slot)]
    ELSE an

\* load_data, lines 557-570
TallyItem(an, player_name, item_name) ==
    TallySlot(TallyToken(an, player_name, extract_token_info(item_name)),
              player_name, determine_item_slot(item_name))

\* load_data, lines 534-554: the loot count, the player info and the healers
\* as CountLoot, but the loot row also opens an attendance entry
CountLootAndAttend(an, player_name, player_info) ==
    [an EXCEPT
        !.player_loot_count = Inc(@, player_name, 1),
        !.player_boss_attendance = Inc(@, player_name, 0),
        !.player_info =
            IF player_name \notin DOMAIN @ \/ @[player_name].Class = "Unknown"
            THEN Put(@, player_name, player_info)
            ELSE @,
        !.healers = IF player_info.Role = "Healer"
                    THEN @ \cup {player_name} ELSE @]

CountLoot(an, player_name, player_info) ==
    [an EXCEPT
        !.player_loot_count = Inc(@, player_name, 1),
        !.player_info =
            IF player_name \notin DOMAIN @ \/ @[player_name].Class = "Unknown"
            THEN Put(@, player_name, player_info)
            ELSE @,
        !.healers = IF player_info.Role = "Healer"
                    THEN @ \cup {player_name} ELSE @]

\* An exception leaves load_data at once: the analyzer it was raised on
\* carries it out of the loops.
Raised(an) == "raised" \in DOMAIN an

Raise(an, exception) == an @@ [raised |-> exception]

\* lines 527-570; line 555 reads the Item cell and extract_token_info
\* (line 428) tests "Corrupted" not in item_name, which raises TypeError
\* on the float NaN of an empty cell
LoadLootOf(an, player_name, row) ==
    IF player_name = "" THEN an
    ELSE IF IsNaN(row.Item)
         THEN Raise(CountLoot(an, player_name, extract_player_info(row)),
                    "TypeError")
         ELSE TallyItem(CountLoot(an, player_name, extract_player_info(row)),
                        player_name, row.Item)

\* load_data, lines 527-570: one row of a loot file
LoadLootRow(an, row) == LoadLootOf(an, extract_player_name(an, row), row)

RECURSIVE LoadLootRows(_, _, _)
LoadLootRows(an, rows, i) ==
    IF i > Len(rows) \/ Raised(an) THEN an
    ELSE LoadLootRows(LoadLootRow(an, rows[i]), rows, i + 1)

\* load_data, lines 516-570
RECURSIVE LoadLootFiles(_, _, _)
LoadLootFiles(an, files, i) ==
    IF i > Len(files) \/ Raised(an) THEN an
    ELSE LoadLootFiles(
             LoadLootRows([an EXCEPT !.loot_data = Append(@, files[i])],
                          files[i].rows, 1),
             files, i + 1)

\* load_data up to the call of identify_name_variations (lines 456-511)
LoadParticipants(an, participant_rows) ==
    LoadParticipantFiles(LoadAllParticipants(an, participant_rows),
                         ParticipantFiles(participant_rows), 1)

\* load_data: the analyzers it may leave, one for each name mapping that
\* identify_name_variations may find
LoadLoot(with_participants, loot_files) ==
    {LoadLootFiles([with_participants EXCEPT !.name_mapping = mapping],
                   loot_files, 1) :
     mapping \in identify_name_variations(with_participants)}

load_data(an, participant_rows, loot_rows) ==
    LoadLoot(LoadParticipants(an, participant_rows), LootFiles(loot_rows, 1))

-----------------------------------------------------------------------------
\* Attendance and the scorer.  An attendance percentage is AttendanceNum over
\* AttendanceDen; a penalty is its numerator over 10 * bosses_attended; a
\* score is its numerator over ScoreDen(bosses_attended).

AttendanceDen == total_bosses * total_bosses

ScoreDen(bosses_attended) == AttendanceDen * 100 * bosses_attended

\* calculate_attendance, lines 607-612: a row of the file resolves to player
PlayerInRaid(an, file, player) ==
    \E i \in 1..Len(file.rows) : extract_player_name(an, file.rows[i]) = player

\* calculate_attendance, lines 603-619
twenty_five_man_bosses(an, player) ==
    SumSet([i \in 1..Len(an.raid_participants) |->
               BossesKilled(an.raid_participants[i].filename)],
           {i \in 1..Len(an.raid_participants) :
               /\ Contains("25man", an.raid_participants[i].filename)
               /\ PlayerInRaid(an, an.raid_participants[i], player)})

\* calculate_attendance, lines 598-625, for one player:
\*   bosses / total * 100 * (1 + bonus * (25-man bosses / total))
\* = bosses * (100 * total + 100 * bonus * 25-man bosses) / total^2
AttendanceNum(an, player) ==
    IF "25" \in Get(an.player_raid_size, player, {})
    THEN an.player_boss_attendance[player] *
         (100 * total_bosses +
          raid_25_percent_bonus_x100 * twenty_five_man_bosses(an, player))
    ELSE an.player_boss_attendance[player] * 100 * total_bosses

calculate_attendance(an) ==
    [player \in DOMAIN an.player_boss_attendance |-> AttendanceNum(an, player)]

\* lines 716 and 731: the slot is a token slot of the player's token
is_token_slot(player_token, slot) ==
    /\ player_token \in DOMAIN token_slot_importance_x10
    /\ slot \in DOMAIN token_slot_importance_x10[player_token]

\* line 713
slot_multiplier_x10(slot) == Get(slot_categories_x10, slot, 10)

\* lines 716-719
token_slot_multiplier_x10(player_token, slot) ==
    IF is_token_slot(player_token, slot)
    THEN token_slot_importance_x10[player_token][slot]
    ELSE slot_multiplier_x10(slot)

\* lines 722-726: count / bosses * multiplier * weight, times 10 * bosses
weighted_slot_penalty(count, multiplier_x10) ==
    count * item_penalty_multiplier * multiplier_x10

\* lines 706-735: the sum of the penalties of the slots that are not token
\* slots of the player
regular_item_penalty(an, player) ==
    LET slots == Get(an.player_item_slots, player, <<>>)
        player_token == an.player_info[player].Token
    IN  SumSet([slot \in DOMAIN slots |->
                   weighted_slot_penalty(slots[slot], slot_multiplier_x10(slot))],
               {slot \in DOMAIN slots :
                   slots[slot] > 0 /\ ~is_token_slot(player_token, slot)})

\* ... and of those that are
token_item_penalty(an, player) ==
    LET slots == Get(an.player_item_slots, player, <<>>)
        player_token == an.player_info[player].Token
    IN  SumSet([slot \in DOMAIN slots |->
                   weighted_slot_penalty(slots[slot],
                       token_slot_multiplier_x10(player_token, slot))],
               {slot \in DOMAIN slots :
                   slots[slot] > 0 /\ is_token_slot(player_token, slot)})

\* the divisor without the floor of 1
bosses_attended_unfloored(an, player) == an.player_boss_attendance[player]

\* line 694
bosses_attended(an, player) == Max(1, an.player_boss_attendance[player])

\* line 750, times ScoreDen(bosses_attended)
regular_score(attendance, bosses, regular_penalty, token_penalty) ==
    attendance * attendance_weight_x10 * 10 * bosses
    - regular_penalty * 10 * AttendanceDen
    - token_penalty * token_penalty_reduction_x10 * AttendanceDen

\* as token_score, with the regular penalty in full
token_score_unreduced(attendance, bosses, regular_penalty, token_penalty) ==
    attendance * attendance_weight_x10 * 10 * bosses
    - token_penalty * 10 * AttendanceDen
    - regular_penalty * 10 * AttendanceDen

\* line 751, times ScoreDen(bosses_attended)
token_score(attendance, bosses, regular_penalty, token_penalty) ==
    attendance * attendance_weight_x10 * 10 * bosses
    - token_penalty * 10 * AttendanceDen
    - regular_penalty * token_penalty_reduction_x10 * AttendanceDen

\* lines 681-689: the players that get a score
ScoredPlayers(an) ==
    {player \in DOMAIN an.player_info :
        /\ ~(player = "overdeath" /\ "ooverdeath" \in DOMAIN an.player_info)
        /\ player \in DOMAIN an.player_boss_attendance
        /\ ~is_pug(player)}

\* lines 688-755: what the scorer computes for each scored player
PlayerScore(attendance, bosses, regular_penalty, token_penalty) ==
    [attendance |-> attendance,
     attendance_score_x10 |-> attendance * attendance_weight_x10,
     bosses_attended |-> bosses,
     regular_item_penalty |-> regular_penalty,
     token_item_penalty |-> token_penalty,
     regular_score |->
         regular_score(attendance, bosses, regular_penalty, token_penalty),
     token_score |->
         token_score(attendance, bosses, regular_penalty, token_penalty)]

ScoresWith(an, attendance) ==
    [player \in ScoredPlayers(an) |->
        PlayerScore(attendance[player], bosses_attended(an, player),
                    regular_item_penalty(an, player),
                    token_item_penalty(an, player))]

PlayerScores(an) == ScoresWith(an, calculate_attendance(an))

\* score a is at least score b, each over its own ScoreDen
ScoreGE(a, b) ==
    a.regular_score * b.bosses_attended >= b.regular_score * a.bosses_attended

\* a descending sort that puts a player before the players of equal score
RECURSIVE InsertBeforeTies(_, _, _)
InsertBeforeTies(sorted, player, scores) ==
    IF sorted = <<>> THEN <<player>>
    ELSE IF ~ScoreGE(scores[player], scores[Head(sorted)])
         THEN <<Head(sorted)>> \o InsertBeforeTies(Tail(sorted), player, scores)
         ELSE <<player>> \o sorted

\* line 774: sorted(..., reverse=True) is stable; order is the order in
\* which the scorer visited the players
RECURSIVE InsertDesc(_, _, _)
InsertDesc(sorted, player, scores) ==
    IF sorted = <<>> THEN <<player>>
    ELSE IF ScoreGE(scores[Head(sorted)], scores[player])
         THEN <<Head(sorted)>> \o InsertDesc(Tail(sorted), player, scores)
         ELSE <<player>> \o sorted

RECURSIVE sorted_players(_, _, _)
sorted_players(order, scores, i) ==
    IF i = 0 THEN <<>>
    ELSE InsertDesc(sorted_players(order, scores, i - 1), order[i], scores)

\* the orders in which a set may be iterated
RECURSIVE Orders(_)
Orders(S) ==
    IF S = {} THEN {<<>>}
    ELSE UNION {{<<x>> \o rest : rest \in Orders(S \ {x})} : x \in S}

\* lines 779-816: the record of one player
RecommendationOf(an, player, info, score) ==
    [Player |-> player,
     IGN |-> info.Original_IGN,
     Class |-> info.Class,
     Spec |-> info.Spec,
     Role |-> info.Role,
     Token |-> info.Token,
     Stat |-> get_player_primary_stat(info.Class, info.Spec),
     Is_Healer |-> player \in an.healers,
     Attendance_Value |-> score.attendance,
     Bosses |-> Get(an.player_boss_attendance, player, 0),
     Raid_Sizes |-> Get(an.player_raid_size, player, {"N/A"}),
     Items_Received |-> Get(an.player_loot_count, player, 0),
     Priority_Score_Value |-> score.regular_score,
     Token_Priority_Score_Value |-> score.token_score,
     Score_Den |-> ScoreDen(score.bosses_attended),
     Token_Items |-> SumValues(Get(an.player_token_count, player, <<>>))]

Recommendation(an, scores, player) ==
    RecommendationOf(an, player, an.player_info[player], scores[player])

\* get_loot_priority_recommendations: the list it may return, one for each
\* order in which the set of known players may be iterated
Recommendations(an, scores, sorted) ==
    [i \in 1..Len(sorted) |-> Recommendation(an, scores, sorted[i])]

RecommendationsOf(an, scores) ==
    {Recommendations(an, scores, sorted_players(order, scores, Len(order))) :
     order \in Orders(DOMAIN scores)}

get_loot_priority_recommendations(an) == RecommendationsOf(an, PlayerScores(an))

\* analyze_and_print_report, lines 881-938: the numbered priority lists of
\* the report.  list.sort(key=..., reverse=True) is stable; the scores are
\* over ScoreDen(bosses) and compared over their common part.
top_n == 10

RecordScoreGE(a, b, key) ==
    a[key] * (b.Score_Den \div ScoreDen(1))
        >= b[key] * (a.Score_Den \div ScoreDen(1))

RECURSIVE InsertRecord(_, _, _)
InsertRecord(sorted, rec, key) ==
    IF sorted = <<>> THEN <<rec>>
    ELSE IF RecordScoreGE(Head(sorted), rec, key)
         THEN <<Head(sorted)>> \o InsertRecord(Tail(sorted), rec, key)
         ELSE <<rec>> \o sorted

RECURSIVE SortedRecords(_, _, _)
SortedRecords(recs, key, i) ==
    IF i = 0 THEN <<>>
    ELSE InsertRecord(SortedRecords(recs, key, i - 1), recs[i], key)

\* players[:10]
TopN(players) ==
    IF Len(players) <= top_n THEN players ELSE SubSeq(players, 1, top_n)

\* lines 883-889: the list of a token set, by token priority score
token_players(recs, token) ==
    LET players == SelectSeq(recs, LAMBDA r : r.Token = token)
    IN  TopN(SortedRecords(players, "Token_Priority_Score_Value", Len(players)))

\* lines 895-929: the lists of the healers and of the primary stats, by
\* priority score
healer_players(recs) ==
    LET players == SelectSeq(recs, LAMBDA r : r.Role = "Healer")
    IN  TopN(SortedRecords(players, "Priority_Score_Value", Len(players)))

intellect_players(recs) ==
    LET players == SelectSeq(recs, LAMBDA r : r.Stat = "Intellect"
                                              /\ r.Role # "Healer")
    IN  TopN(SortedRecords(players, "Priority_Score_Value", Len(players)))

stat_players(recs, stat) ==
    LET players == SelectSeq(recs, LAMBDA r : r.Stat = stat)
    IN  TopN(SortedRecords(players, "Priority_Score_Value", Len(players)))

\* lines 931-938: the list of the tanks, whole
tank_players(recs) ==
    LET players == SelectSeq(recs, LAMBDA r : r.Role \in {"Main Tank", "Offtank"})
    IN  SortedRecords(players, "Priority_Score_Value", Len(players))

-----------------------------------------------------------------------------
(* DataProcessor (data_processor.py): the CSV files to the JSON files.  A  *)
(* JSON file that does not exist is modelled by its empty content, which   *)
(* the adapter treats alike: it loads nothing.                             *)

\* str.replace(old, ""), from position i on
RECURSIVE RemoveAllFrom(_, _, _)
RemoveAllFrom(s, old, i) ==
    IF i > Len(s) THEN ""
    ELSE IF i + Len(old) - 1 <= Len(s) /\ SubSeq(s, i, i + Len(old) - 1) = old
         THEN RemoveAllFrom(s, old, i + Len(old))
         ELSE CharAt(s, i) \o RemoveAllFrom(s, old, i + 1)

RemoveAll(s, old) == RemoveAllFrom(s, old, 1)

\* str.split("_")
RECURSIVE SplitFrom(_, _, _)
SplitFrom(s, i, part) ==
    IF i > Len(s) THEN <<part>>
    ELSE IF CharAt(s, i) = "_" THEN <<part>> \o SplitFrom(s, i + 1, "")
         ELSE SplitFrom(s, i + 1, part \o CharAt(s, i))

Split(s) == SplitFrom(s, 1, "")

determine_primary_stat(class_name, spec) ==
    IF class_name = "Druid"
    THEN (IF spec \in {"Feral", "Guardian"} THEN "Agility" ELSE "Intellect")
    ELSE IF class_name = "Shaman"
    THEN (IF spec = "Enhancement" THEN "Agility" ELSE "Intellect")
    ELSE IF class_name = "Paladin"
    THEN (IF spec \in {"Holy", "Protection"} THEN "Intellect" ELSE "Strength")
    ELSE IF class_name \in {"Warrior", "Paladin", "Death Knight", "DK"}
    THEN "Strength"
    ELSE IF class_name \in {"Rogue", "Hunter", "Druid", "Shaman"}
    THEN "Agility"
    ELSE IF class_name \in {"Mage", "Warlock", "Priest", "Shaman", "Druid",
                            "Paladin"}
    THEN "Intellect"
    ELSE "Unknown"

determine_token_slot(item_name) ==
    IF Contains("Head", item_name) THEN "Head"
    ELSE IF Contains("Chest", item_name) THEN "Chest"
    ELSE IF Contains("Hands", item_name) \/ Contains("Gauntlets", item_name)
    THEN "Hands"
    ELSE IF Contains("Legs", item_name) \/ Contains("Leggings", item_name)
    THEN "Legs"
    ELSE IF Contains("Shoulder", item_name) THEN "Shoulder"
    ELSE "unknown"

\* <<item_type, item_slot>>
determine_item_type_and_slot(item_name) ==
    IF \/ Contains("Corrupted Vanquisher", item_name)
       \/ Contains("Corrupted Conqueror", item_name)
       \/ Contains("Corrupted Protector", item_name)
    THEN <<"token", determine_token_slot(item_name)>>
    ELSE IF FirstMatch(dp_slot_keywords, item_name) # 0
    THEN <<"gear", dp_slot_keywords[FirstMatch(dp_slot_keywords, item_name)][1]>>
    ELSE <<"unknown", "unknown">>

Weekdays ==
    {"sunday", "monday", "tuesday", "wednesday", "thursday", "friday",
     "saturday"}

\* _extract_raid_info_from_filename, lines 327-329
RaidTypeOf(parts) ==
    IF Contains("10man", parts[1]) \/ Contains("25man", parts[1])
    THEN parts[1] ELSE "Unknown"

\* lines 331-338
BossOf(parts) ==
    IF Len(parts) > 1
    THEN (IF Contains("war", parts[2]) /\ Contains("spine", parts[3])
          THEN "Warmaster Blackhorn & Spine of Deathwing"
          ELSE IF Contains("madness", parts[2]) THEN "Madness of Deathwing"
          ELSE IF Contains("58", parts[2]) THEN "Morchok to Ultraxion"
          ELSE "Unknown")
    ELSE "Unknown"

\* lines 340-345: the first part that is a weekday, with the part after it
RECURSIVE DateFrom(_, _)
DateFrom(parts, i) ==
    IF i > Len(parts) THEN "Unknown"
    ELSE IF parts[i] \in Weekdays
    THEN (IF i + 1 <= Len(parts) THEN parts[i] \o "_" \o parts[i + 1]
          ELSE DateFrom(parts, i + 1))
    ELSE DateFrom(parts, i + 1)

RaidInfoOf(parts) ==
    [raid_type |-> RaidTypeOf(parts), boss |-> BossOf(parts),
     date |-> DateFrom(parts, 1)]

extract_raid_info_from_filename(filename) ==
    RaidInfoOf(Split(RemoveAll(filename, ".csv")))

\* the player_info entry made from a participants row (with its Note) ...
ParticipantInfo(row) ==
    [Original_IGN |-> Strip(row.IGN), Class |-> row.Class, Spec |-> row.Spec,
     Token |-> row.Token, Role |-> row.Role, Note |-> "",
     Primary_Stat |-> determine_primary_stat(row.Class, row.Spec)]

\* ... and from a loot row (without)
LootRowInfo(row) ==
    [Original_IGN |-> Strip(row.IGN), Class |-> row.Class, Spec |-> row.Spec,
     Token |-> row.Token, Role |-> row.Role,
     Primary_Stat |-> determine_primary_stat(row.Class, row.Spec)]

\* _process_player_data, lines 45-62: all_participants.csv, later rows
\* overwriting earlier ones
RECURSIVE ProcessAllParticipants(_, _, _)
ProcessAllParticipants(info, rows, i) ==
    IF i > Len(rows) THEN info
    ELSE ProcessAllParticipants(
             IF Strip(rows[i].IGN) = "" THEN info
             ELSE Put(info, Lower(Strip(rows[i].IGN)), ParticipantInfo(rows[i])),
             rows, i + 1)

\* _process_player_data, lines 71-89: a raid participants file, only players
\* not yet known
RECURSIVE ProcessParticipantRows(_, _, _)
ProcessParticipantRows(info, rows, i) ==
    IF i > Len(rows) THEN info
    ELSE ProcessParticipantRows(
             IF \/ Strip(rows[i].IGN) = ""
                \/ Lower(Strip(rows[i].IGN)) \in DOMAIN info
             THEN info
             ELSE Put(info, Lower(Strip(rows[i].IGN)), ParticipantInfo(rows[i])),
             rows, i + 1)

RECURSIVE ProcessParticipantFiles(_, _, _)
ProcessParticipantFiles(info, files, i) ==
    IF i > Len(files) THEN info
    ELSE ProcessParticipantFiles(
             ProcessParticipantRows(info, files[i].rows, 1), files, i + 1)

process_player_data(participant_rows) ==
    ProcessParticipantFiles(
        ProcessAllParticipants(<<>>, all_participants_csv(participant_rows), 1),
        RaidParticipantFiles(participant_rows, 1), 1)

\* _process_loot_data, lines 103-130: the loot_history entry of a row
LootEntryOf(normalized_name, clean_item_name, type_and_slot, raid_info) ==
    [player |-> normalized_name, item |-> clean_item_name,
     item_type |-> type_and_slot[1], item_slot |-> type_and_slot[2],
     raid_type |-> raid_info.raid_type, boss |-> raid_info.boss,
     date |-> raid_info.date, note |-> ""]

\* line 113
CleanItemName(item_name) ==
    Strip(RemoveAll(item_name, " - Item - Cataclysm Classic"))

LootEntry(raid_info, row) ==
    LootEntryOf(Lower(Strip(row.IGN)), CleanItemName(Strip(row.Item)),
                determine_item_type_and_slot(CleanItemName(Strip(row.Item))),
                raid_info)

\* _process_loot_data: dp is [player_info, loot_history]
\* lines 130-141
AddLoot(dp, normalized_name, row, loot_entry) ==
    [player_info |->
         IF normalized_name \in DOMAIN dp.player_info THEN dp.player_info
         ELSE Put(dp.player_info, normalized_name, LootRowInfo(row)),
     loot_history |-> Append(dp.loot_history, loot_entry)]

ProcessLootRow(dp, raid_info, row) ==
    IF Strip(row.IGN) = "" \/ Strip(row.Item) = "" THEN dp
    ELSE AddLoot(dp, Lower(Strip(row.IGN)), row, LootEntry(raid_info, row))

RECURSIVE ProcessLootRows(_, _, _, _)
ProcessLootRows(dp, raid_info, rows, i) ==
    IF i > Len(rows) THEN dp
    ELSE ProcessLootRows(ProcessLootRow(dp, raid_info, rows[i]),
                         raid_info, rows, i + 1)

RECURSIVE ProcessLootFiles(_, _, _)
ProcessLootFiles(dp, files, i) ==
    IF i > Len(files) THEN dp
    ELSE ProcessLootFiles(
             ProcessLootRows(dp,
                             extract_raid_info_from_filename(files[i].filename),
                             files[i].rows, 1),
             files, i + 1)

process_loot_data(player_info, loot_rows) ==
    ProcessLootFiles([player_info |-> player_info, loot_history |-> <<>>],
                     LootFiles(loot_rows, 1), 1)

\* _generate_raid_sessions, line 149
RaidKey(loot) == <<loot.raid_type, loot.boss, loot.date>>

\* lines 148-165: the raid keys in the order of their first loot entry
AddRaidKey(keys, key) ==
    IF \E j \in 1..Len(keys) : keys[j] = key THEN keys ELSE Append(keys, key)

RECURSIVE RaidKeys(_, _)
RaidKeys(history, i) ==
    IF i = 0 THEN <<>>
    ELSE AddRaidKey(RaidKeys(history, i - 1), RaidKey(history[i]))

\* lines 159-165
LootAssignment(loot) ==
    [player |-> loot.player, item |-> loot.item, item_type |-> loot.item_type,
     item_slot |-> loot.item_slot, note |-> loot.note]

RECURSIVE LootAssignments(_, _, _)
LootAssignments(history, key, i) ==
    IF i > Len(history) THEN <<>>
    ELSE (IF RaidKey(history[i]) = key THEN <<LootAssignment(history[i])>>
          ELSE <<>>) \o LootAssignments(history, key, i + 1)

\* lines 175-181: the participants files a raid group matches, in os.listdir
\* order (all_participants.csv last)
MatchingParticipantFiles(files, key) ==
    SelectSeq(files, LAMBDA file :
        /\ Contains("participants", Lower(file.filename))
        /\ Contains(Lower(key[1]), Lower(file.filename))
        /\ (Contains(Lower(key[2]), Lower(file.filename)) \/ key[2] = "Unknown")
        /\ (Contains(Lower(key[3]), Lower(file.filename)) \/ key[3] = "Unknown"))

\* lines 184-193
RECURSIVE SessionParticipants(_, _)
SessionParticipants(rows, i) ==
    IF i > Len(rows) THEN <<>>
    ELSE (IF Strip(rows[i].IGN) # "" THEN <<Lower(Strip(rows[i].IGN))>>
          ELSE <<>>) \o SessionParticipants(rows, i + 1)

\* lines 168-204: the session of one raid group
\* lines 170-193: the participants of the first matching file
ParticipantsOf(matching) ==
    IF matching = <<>> THEN <<>> ELSE SessionParticipants(matching[1].rows, 1)

RaidSession(history, files, key) ==
    [raid_type |-> key[1], boss |-> key[2], date |-> key[3],
     participants |-> ParticipantsOf(MatchingParticipantFiles(files, key)),
     loot_assignments |-> LootAssignments(history, key, 1)]

RaidSessions(history, files, keys) ==
    [i \in 1..Len(keys) |-> RaidSession(history, files, keys[i])]

generate_raid_sessions(history, participant_rows) ==
    RaidSessions(history, ParticipantFiles(participant_rows),
                 RaidKeys(history, Len(history)))

\* _save_processed_data: the three JSON files
ProcessedData(dp, participant_rows) ==
    [player_info |-> dp.player_info,
     loot_history |-> dp.loot_history,
     raid_sessions |-> generate_raid_sessions(dp.loot_history, participant_rows)]

\* process_all_data: the three JSON files it writes
process_all_data(participant_rows, loot_rows) ==
    ProcessedData(
        process_loot_data(process_player_data(participant_rows), loot_rows),
        participant_rows)

-----------------------------------------------------------------------------
(* LootAnalyzerAdapter (loot_analyzer_adapter.py).                         *)

\* load_data, lines 59-79: one loot_history record; a key the record lacks
\* reads as ""
AdapterLoadLoot(an, loot) ==
    LET player_name == Get(loot, "player", "")
        item_name == Get(loot, "item", "")
        item_type == Get(loot, "item_type", "")
        item_slot == Get(loot, "item_slot", "")
        counted == [an EXCEPT !.player_loot_count = Inc(@, player_name, 1)]
        with_slot ==
            IF item_slot # "unknown"
            THEN [counted EXCEPT
                     !.player_item_slots = IncNested(@, player_name, item_slot)]
            ELSE counted
    IN  IF player_name = "" \/ item_name = "" THEN an
        ELSE IF item_type = "token"
        THEN [with_slot EXCEPT
                 !.player_token_count =
                     IncNested(@, player_name, extract_token_info(item_name)[1])]
        ELSE with_slot

RECURSIVE AdapterLoadLootHistory(_, _, _)
AdapterLoadLootHistory(an, history, i) ==
    IF i > Len(history) THEN an
    ELSE AdapterLoadLootHistory(AdapterLoadLoot(an, history[i]), history, i + 1)

\* load_data, lines 93-102
bosses_count(raid_type) ==
    IF Contains("25man_58", raid_type) THEN 5
    ELSE IF Contains("10man_war_spine", raid_type) THEN 2
    ELSE IF Contains("10man_madness", raid_type) THEN 1
    ELSE 1

\* load_data, lines 105-112: one participant of a session
AdapterLoadParticipant(an, raid_type, player) ==
    [an EXCEPT
        !.player_boss_attendance = Inc(@, player, bosses_count(raid_type)),
        !.player_raid_size =
            IF Contains("25man", raid_type)
            THEN Put(@, player, Get(@, player, {}) \cup {"25"})
            ELSE IF Contains("10man", raid_type)
            THEN Put(@, player, Get(@, player, {}) \cup {"10"})
            ELSE @]

RECURSIVE AdapterLoadParticipants(_, _, _, _)
AdapterLoadParticipants(an, raid_type, participants, i) ==
    IF i > Len(participants) THEN an
    ELSE AdapterLoadParticipants(
             AdapterLoadParticipant(an, raid_type, participants[i]),
             raid_type, participants, i + 1)

RECURSIVE AdapterLoadSessions(_, _, _)
AdapterLoadSessions(an, sessions, i) ==
    IF i > Len(sessions) THEN an
    ELSE AdapterLoadSessions(
             AdapterLoadParticipants(an, Get(sessions[i], "raid_type", ""),
                                     Get(sessions[i], "participants", <<>>), 1),
             sessions, i + 1)

\* LootAnalyzerAdapter.load_data on the analyzer it holds
adapter_load_data(an, info_json, history_json, sessions_json) ==
    AdapterLoadSessions(
        AdapterLoadLootHistory([an EXCEPT !.player_info = info_json],
                               history_json, 1),
        sessions_json, 1)

-----------------------------------------------------------------------------
(* The system: the files, one command-line analyzer run at a time, and the *)
(* web application's adapter singleton.                                    *)

\* JSON files left in data/ by other means than the data processor: a loot
\* record without item_slot, a session whose raid_type names the raid file.
StoredPlayerInfo ==
    "albear" :> [Original_IGN |-> "albear", Class |-> "Druid", Spec |-> "Feral",
                 Token |-> "Vanquisher", Role |-> "Offtank",
                 Primary_Stat |-> "Agility"]

StoredLootHistory ==
    << [player |-> "albear", item |-> "Bottled Wishes", item_type |-> "gear"] >>

StoredRaidSessions ==
    << [raid_type |-> "25man_58", boss |-> "Morchok to Ultraxion",
        date |-> "sunday_2402", participants |-> <<"albear">>,
        loot_assignments |-> <<>>] >>

\* The contents the processed_data directory may have
ParticipantSelections == RowSelections(ParticipantRowPool, MaxPartRows)
LootSelections == RowSelections(LootRowPool, MaxLootRows)

\* analyze_and_print_report on a fresh analyzer: the analyzer as load_data
\* leaves it, the scorer's values and the recommendations.  A run that
\* counted no loot returns before the scorer (lines 826-828).
AnalyzeLoaded(an) ==
    IF Raised(an)
    THEN {[analyzer |-> [field \in DOMAIN an \ {"raised"} |-> an[field]],
           scores |-> <<>>, recommendations |-> <<>>, error |-> an.raised]}
    ELSE IF DOMAIN an.player_loot_count = {}
    THEN {[analyzer |-> an, scores |-> <<>>, recommendations |-> <<>>,
           error |-> ""]}
    ELSE {[analyzer |-> an, scores |-> PlayerScores(an),
           recommendations |-> recs, error |-> ""] :
          recs \in get_loot_priority_recommendations(an)}

analyze(participant_rows, loot_rows) ==
    UNION {AnalyzeLoaded(an) :
           an \in load_data(NewAnalyzer, participant_rows, loot_rows)}

\* The outcomes of a command-line run and of the data processor, for each
\* content of the directory (computed once)
AnalyzerRuns ==
    [participant_rows \in ParticipantSelections, loot_rows \in LootSelections |->
        analyze(participant_rows, loot_rows)]

DataProcessorRuns ==
    [participant_rows \in ParticipantSelections, loot_rows \in LootSelections |->
        process_all_data(participant_rows, loot_rows)]

\* the outcomes of a command-line run on a content of the directory
AnalyzerRun(participant_rows, loot_rows) ==
    IF participant_rows \in ParticipantSelections /\ loot_rows \in LootSelections
    THEN AnalyzerRuns[participant_rows, loot_rows]
    ELSE analyze(participant_rows, loot_rows)

\* the outcome of the data processor on a content of the directory
DataProcessorRun(participant_rows, loot_rows) ==
    IF participant_rows \in ParticipantSelections /\ loot_rows \in LootSelections
    THEN DataProcessorRuns[participant_rows, loot_rows]
    ELSE process_all_data(participant_rows, loot_rows)

-----------------------------------------------------------------------------
(* The web application: the raid session of api/routes.py and the          *)
(* connection manager of api/websocket.py.                                 *)
(*                                                                         *)
(* Python objects that are shared and changed in place are kept in a heap: *)
(* session_objects holds every session dict the routes created, and a      *)
(* reference to one is its index.  None is the empty sequence, a value v   *)
(* that may be None is << v >>.  Time is counted in seconds.               *)

MessageTypes == << "raid_status", "loot_assignment", "priorities" >>
Clients == {"ws1", "ws2"}
BossNames == {"Morchok", "Ultraxion"}
ItemNames == {"Souldrinker", "Gurthalak"}
RaidParticipants == << "albear", "borran" >>

\* routes.py lines 16-22 and 202-208
InactiveSession ==
    [active |-> FALSE, start_time |-> <<>>, current_boss |-> <<>>,
     participants |-> <<>>, loot_assignments |-> <<>>]

\* routes.py lines 154-160
NewSession(boss_name, participants, now) ==
    [active |-> TRUE, start_time |-> << now >>, current_boss |-> << boss_name >>,
     participants |-> participants, loot_assignments |-> <<>>]

\* routes.py lines 243-248
AssignedLoot(item_name, player_name, current_boss, now) ==
    [item |-> item_name, player |-> player_name, boss |-> current_boss,
     timestamp |-> now]

NoAssignment == AssignedLoot("", "", <<>>, 0)

\* the JSON text of a broadcast's data: of a session, of a loot assignment
\* or of a list of recommendations
Json(session, loot_assignment, priorities) ==
    [session |-> session, loot_assignment |-> loot_assignment,
     priorities |-> priorities]

NoJson == Json(InactiveSession, NoAssignment, <<>>)

\* the data argument of ConnectionManager.broadcast: a reference to a
\* session dict, a loot assignment or a list of recommendations; as_broadcast
\* is its JSON text at the time of the broadcast
Data(kind, session, loot_assignment, priorities, as_broadcast) ==
    [kind |-> kind, session |-> session, loot_assignment |-> loot_assignment,
     priorities |-> priorities, as_broadcast |-> as_broadcast]

NoData == Data("None", 0, NoAssignment, <<>>, NoJson)

\* websocket.py send_json: the data as JSON, the session as it is now
JsonOf(data, heap) ==
    Json(IF data.kind = "raid_status" THEN heap[data.session]
         ELSE InactiveSession,
         data.loot_assignment, data.priorities)

\* websocket.py lines 126-136 and 42: the data of a broadcast_raid_status,
\* broadcast_loot_assignment and broadcast_priorities
RaidStatusData(session, heap) ==
    Data("raid_status", session, NoAssignment, <<>>,
         Json(heap[session], NoAssignment, <<>>))

LootAssignmentData(loot_assignment) ==
    Data("loot_assignment", 0, loot_assignment, <<>>,
         Json(InactiveSession, loot_assignment, <<>>))

PrioritiesData(priorities) ==
    Data("priorities", 0, NoAssignment, priorities,
         Json(InactiveSession, NoAssignment, priorities))

\* websocket.py line 27, `if msg:` : None and the empty list are false
Truthy(data) ==
    /\ data.kind # "None"
    /\ data.kind = "priorities" => data.priorities # <<>>

\* websocket.py lines 13-18
NoLastMessages ==
    [raid_status |-> NoData, loot_assignment |-> NoData, priorities |-> NoData]

\* a message as a client receives it; via tells who sent it (connect,
\* broadcast or send_personal_message)
Message(type, data, via, as_broadcast) ==
    [type |-> type, data |-> data, via |-> via, as_broadcast |-> as_broadcast]

\* websocket.py lines 28-32
ConnectMessage(data, heap) ==
    Message(data.kind, JsonOf(data, heap), "connect", data.as_broadcast)

\* websocket.py lines 45-49 and 55
BroadcastMessage(data, heap) ==
    Message(data.kind, JsonOf(data, heap), "broadcast", data.as_broadcast)

\* websocket.py lines 80-87, 100-104 and 108-114
PersonalMessage(type) == Message(type, NoJson, "personal", NoJson)

\* a broadcast in flight: its data, the number of connections the loop has
\* taken, the connections marked for removal; and, to observe it, the
\* connections it sent to and the connections at its start and at its end
BroadcastTask(data, position, disconnected, sent, at_start, at_end) ==
    [data |-> data, position |-> position, disconnected |-> disconnected,
     sent |-> sent, at_start |-> at_start, at_end |-> at_end]

NoBroadcast == BroadcastTask(NoData, 0, <<>>, <<>>, {}, {})

\* websocket.py lines 34-37, list.remove
Without(connections, connection) ==
    IF \E i \in 1..Len(connections) : connections[i] = connection
    THEN LET first == CHOOSE i \in 1..Len(connections) :
                          /\ connections[i] = connection
                          /\ \A j \in 1..(i - 1) : connections[j] # connection
         IN  [i \in 1..(Len(connections) - 1) |->
                 IF i < first THEN connections[i] ELSE connections[i + 1]]
    ELSE connections

RECURSIVE WithoutAll(_, _, _)
\* websocket.py lines 60-62
WithoutAll(connections, disconnected, i) ==
    IF i > Len(disconnected) THEN connections
    ELSE WithoutAll(Without(connections, disconnected[i]), disconnected, i + 1)

SeqRange(s) == {s[i] : i \in 1..Len(s)}

WithoutIndex(s, n) ==
    [i \in 1..(Len(s) - 1) |-> IF i < n THEN s[i] ELSE s[i + 1]]

\* the session dict the global active_raid_session is bound to
Session == session_objects[active_raid_session]

\* a response of a raid-session route: the status and the data as JSON
Response(request, status, session, loot_assignment, end_time) ==
    [request |-> request, status |-> status, session |-> session,
     loot_assignment |-> loot_assignment, end_time |-> end_time]

\* routes.py lines 148-151, 181-184, 234-237 and 285-288
ErrorResponse(request) ==
    Response(request, "error", InactiveSession, NoAssignment, <<>>)

\* a start_raid that checks nothing
start_raid_never_rejected(session) == FALSE

\* routes.py line 147
start_raid_rejected(session) == session.active

\* the assignment put first
PrependAssignment(loot_assignments, loot_assignment) ==
    << loot_assignment >> \o loot_assignments

\* routes.py line 251
AppendAssignment(loot_assignments, loot_assignment) ==
    Append(loot_assignments, loot_assignment)

\* the bounds on the broadcasts in flight and on the messages of a client
CanBroadcast ==
    /\ Len(broadcasts) < MaxBroadcasts
    /\ \A c \in Clients : Len(received[c]) < MaxReceived

\* websocket.py lines 52-62: broadcast task n of `tasks` runs from where it
\* is suspended to its next send, or to its end when the loop over
\* active_connections is exhausted
RunBroadcast(tasks, n, heap) ==
    \E task \in {tasks[n]} :
        IF task.position < Len(active_connections)
        THEN \E connection \in {active_connections[task.position + 1]} :
                /\ active_connections' = active_connections
                /\ finished' = finished
                /\ IF peer_closed[connection]
                   THEN /\ received' = received
                        /\ broadcasts' =
                               [tasks EXCEPT
                                   ![n].position = @ + 1,
                                   ![n].disconnected = Append(@, connection)]
                   ELSE /\ received' =
                               [received EXCEPT ![connection] =
                                   Append(@, BroadcastMessage(task.data, heap))]
                        /\ broadcasts' =
                               [tasks EXCEPT
                                   ![n].position = @ + 1,
                                   ![n].sent = Append(@, connection)]
        ELSE \E connections \in
                    {WithoutAll(active_connections, task.disconnected, 1)} :
                /\ active_connections' = connections
                /\ broadcasts' = WithoutIndex(tasks, n)
                /\ received' = received
                /\ finished' = [task EXCEPT !.at_end = SeqRange(connections)]

\* websocket.py lines 39-55: the start of a broadcast, up to its first send.
\* The background task starts when the route has returned its response.
Broadcast(data, heap) ==
    /\ last_messages' = [last_messages EXCEPT ![data.kind] = data]
    /\ RunBroadcast(Append(broadcasts,
                           BroadcastTask(data, 0, <<>>, <<>>,
                                         SeqRange(active_connections), {})),
                    Len(broadcasts) + 1, heap)

\* a broadcast resumes from its send
ResumeBroadcast ==
    /\ \E n \in 1..Len(broadcasts) : RunBroadcast(broadcasts, n, session_objects)
    /\ UNCHANGED <<analysis_vars, session_vars, last_messages, handlers,
                   peer_closed>>

\* POST /raid/start
start_raid(boss_name, participants) ==
    /\ Len(responses) < MaxRequests
    /\ CanBroadcast
    /\    IF start_raid_rejected(Session)
          THEN /\ responses' = Append(responses, ErrorResponse("start_raid"))
               /\ UNCHANGED <<active_raid_session, session_objects,
                              socket_vars>>
          ELSE \E heap \in {Append(session_objects,
                                   NewSession(boss_name, participants,
                                              clock))} :
                  /\ session_objects' = heap
                  /\ active_raid_session' = Len(heap)
                  /\ Broadcast(RaidStatusData(Len(heap), heap), heap)
                  /\ responses' =
                         Append(responses,
                                Response("start_raid", "success",
                                         heap[Len(heap)], NoAssignment, <<>>))
                  /\ UNCHANGED <<handlers, peer_closed>>
    /\ UNCHANGED <<analysis_vars, raid_logs, clock>>

StartRaid == \E boss_name \in BossNames : start_raid(boss_name, RaidParticipants)

\* POST /raid/end
end_raid ==
    /\ Len(responses) < MaxRequests
    /\ CanBroadcast
    /\ IF ~Session.active
       THEN /\ responses' = Append(responses, ErrorResponse("end_raid"))
            /\ UNCHANGED <<active_raid_session, session_objects, raid_logs,
                           socket_vars>>
       ELSE \E heap \in {Append(session_objects, InactiveSession)} :
               /\ raid_logs' = Put(raid_logs, clock,
                                   [session |-> Session, end_time |-> << clock >>])
               /\ session_objects' = heap
               /\ active_raid_session' = Len(heap)
               /\ Broadcast(RaidStatusData(Len(heap), heap), heap)
               /\ responses' =
                      Append(responses,
                             Response("end_raid", "success", Session,
                                      NoAssignment, << clock >>))
               /\ UNCHANGED <<handlers, peer_closed>>
    /\ UNCHANGED <<analysis_vars, clock>>

EndRaid == end_raid

\* POST /loot/assign; boss_name "" is no boss name
assign_loot(item_name, player_name, boss_name) ==
    /\ Len(responses) < MaxRequests
    /\ CanBroadcast
    /\    IF ~Session.active
          THEN /\ responses' = Append(responses, ErrorResponse("assign_loot"))
               /\ UNCHANGED <<session_objects, socket_vars>>
          ELSE \E loot_assignment \in
                      {AssignedLoot(item_name, player_name,
                                      IF boss_name # "" THEN << boss_name >>
                                      ELSE Session.current_boss,
                                      clock)} :
               \E heap \in {[session_objects EXCEPT
                                ![active_raid_session].loot_assignments =
                                    AppendAssignment(@, loot_assignment)]} :
                  /\ session_objects' = heap
                  /\ Broadcast(LootAssignmentData(loot_assignment), heap)
                  /\ responses' =
                         Append(responses,
                                Response("assign_loot", "success",
                                         InactiveSession, loot_assignment,
                                         <<>>))
                  /\ UNCHANGED <<handlers, peer_closed>>
    /\ UNCHANGED <<analysis_vars, active_raid_session, raid_logs, clock>>

AssignLoot ==
    \E item_name \in ItemNames, boss_name \in {"", "Ultraxion"} :
        assign_loot(item_name, "albear", boss_name)

\* PUT /raid/boss
update_current_boss(boss_name) ==
    /\ Len(responses) < MaxRequests
    /\ CanBroadcast
    /\    IF ~Session.active
          THEN /\ responses' = Append(responses, ErrorResponse("update_current_boss"))
               /\ UNCHANGED <<session_objects, socket_vars>>
          ELSE \E heap \in {[session_objects EXCEPT
                                ![active_raid_session].current_boss =
                                    << boss_name >>]} :
                  /\ session_objects' = heap
                  /\ Broadcast(RaidStatusData(active_raid_session, heap), heap)
                  /\ responses' =
                         Append(responses,
                                Response("update_current_boss", "success",
                                         heap[active_raid_session],
                                         NoAssignment, <<>>))
                  /\ UNCHANGED <<handlers, peer_closed>>
    /\ UNCHANGED <<analysis_vars, active_raid_session, raid_logs, clock>>

UpdateCurrentBoss == \E boss_name \in BossNames : update_current_boss(boss_name)

\* a second passes
Tick ==
    /\ clock < MaxClock
    /\ clock' = clock + 1
    /\ UNCHANGED <<analysis_vars, active_raid_session, session_objects,
                   raid_logs, responses, socket_vars>>

\* the position of a WebSocket handler: pc, the message type connect sent
\* last, and the message types that had been broadcast when it started
Handler(pc, position, known) ==
    [pc |-> pc, position |-> position, known |-> known]

\* websocket.py lines 26-32 and 78-87: connect goes on with the message
\* types after `position`, up to its next send; after the last type
\* handle_websocket sends the welcome message and waits for the client
ContinueConnect(c, position, known, connections) ==
    \E next \in {{j \in (position + 1)..Len(MessageTypes) :
                     Truthy(last_messages[MessageTypes[j]])}} :
        IF next # {}
        THEN \E j \in {CHOOSE j \in next : \A k \in next : j <= k} :
                /\ active_connections' = connections
                /\ IF peer_closed[c]
                   THEN /\ handlers' = [handlers EXCEPT ![c] =
                                           Handler("ended", j, known)]
                        /\ received' = received
                   ELSE /\ handlers' = [handlers EXCEPT ![c] =
                                           Handler("connecting", j, known)]
                        /\ received' =
                               [received EXCEPT ![c] =
                                   Append(@, ConnectMessage(
                                                 last_messages[MessageTypes[j]],
                                                 session_objects))]
        ELSE /\ handlers' = [handlers EXCEPT ![c] =
                                Handler("listening", Len(MessageTypes), known)]
             /\ IF peer_closed[c]
                THEN /\ active_connections' = Without(connections, c)
                     /\ received' = received
                ELSE /\ active_connections' = connections
                     /\ received' = [received EXCEPT ![c] =
                                        Append(@, PersonalMessage("connection"))]

\* websocket.py lines 74-76 and 20-22: a client opens /ws and the handler
\* awaits the handshake
Connect(c) ==
    /\ handlers[c].pc = "idle"
    /\ handlers' = [handlers EXCEPT ![c] = Handler("accepting", 0, {})]
    /\ UNCHANGED <<analysis_vars, session_vars, active_connections,
                   last_messages, broadcasts, finished, peer_closed, received>>

\* websocket.py lines 22-32: connect resumes from accept, which raises when
\* the client is gone, or from a send
ResumeConnect(c) ==
    /\ \/ /\ handlers[c].pc = "accepting"
          /\ IF peer_closed[c]
             THEN /\ handlers' = [handlers EXCEPT ![c].pc = "ended"]
                  /\ UNCHANGED <<active_connections, received>>
             ELSE ContinueConnect(c, 0,
                                  {type \in SeqRange(MessageTypes) :
                                      last_messages[type].kind # "None"},
                                  Append(active_connections, c))
       \/ /\ handlers[c].pc = "connecting"
          /\ ContinueConnect(c, handlers[c].position, handlers[c].known,
                             active_connections)
    /\ UNCHANGED <<analysis_vars, session_vars, last_messages, broadcasts,
                   finished, peer_closed>>

\* websocket.py lines 90-114: the client sends a text, JSON or not, and
\* gets the echo or the error message
ReceiveText(c) ==
    /\ handlers[c].pc = "listening"
    /\ ~peer_closed[c]
    /\ Len(received[c]) < MaxReceived
    /\ \E type \in {"echo", "error"} :
          received' = [received EXCEPT ![c] = Append(@, PersonalMessage(type))]
    /\ UNCHANGED <<analysis_vars, session_vars, active_connections,
                   last_messages, broadcasts, finished, handlers, peer_closed>>

\* websocket.py lines 116-118: receive_text raises WebSocketDisconnect
ReceiveDisconnect(c) ==
    /\ handlers[c].pc = "listening"
    /\ peer_closed[c]
    /\ active_connections' = Without(active_connections, c)
    /\ handlers' = [handlers EXCEPT ![c].pc = "ended"]
    /\ UNCHANGED <<analysis_vars, session_vars, last_messages, broadcasts,
                   finished, peer_closed, received>>

\* the client closes its end of the connection
PeerClose(c) ==
    /\ handlers[c].pc # "ended"
    /\ ~peer_closed[c]
    /\ peer_closed' = [peer_closed EXCEPT ![c] = TRUE]
    /\ UNCHANGED <<analysis_vars, session_vars, active_connections,
                   last_messages, broadcasts, finished, handlers, received>>

\* routes.py lines 15-22 and websocket.py lines 10-18 and 72: the web
\* application when it has started
WebAppInit ==
    /\ session_objects = << InactiveSession >>
    /\ active_raid_session = 1
    /\ raid_logs = <<>>
    /\ clock = 0
    /\ responses = <<>>
    /\ active_connections = <<>>
    /\ last_messages = NoLastMessages
    /\ broadcasts = <<>>
    /\ finished = NoBroadcast
    /\ handlers = [c \in Clients |-> Handler("idle", 0, {})]
    /\ peer_closed = [c \in Clients |-> FALSE]
    /\ received = [c \in Clients |-> <<>>]

Init ==
    /\ participants_csv \in ParticipantSelections
    /\ loot_csv \in LootSelections
    /\ \/ /\ player_info_json = <<>>
          /\ loot_history = <<>>
          /\ raid_sessions = <<>>
       \/ /\ player_info_json = StoredPlayerInfo
          /\ loot_history = StoredLootHistory
          /\ raid_sessions = StoredRaidSessions
    /\ cli = NewAnalyzer
    /\ cli_scores = <<>>
    /\ cli_recs = <<>>
    /\ cli_error = ""
    /\ adapter = NewAnalyzer
    /\ adapter_scores = <<>>
    /\ adapter_recs = <<>>
    /\ loads = 0
    /\ WebAppInit

\* python loot_analysis_enhanced.py: a fresh analyzer loads the CSV files
\* and ranks the players
RunAnalysis ==
    /\ \E run \in AnalyzerRun(participants_csv, loot_csv) :
          /\ cli' = run.analyzer
          /\ cli_scores' = run.scores
          /\ cli_recs' = run.recommendations
          /\ cli_error' = run.error
    /\ UNCHANGED <<participants_csv, loot_csv, loot_history, raid_sessions,
                   player_info_json, adapter, adapter_scores, adapter_recs,
                   loads>>
    /\ UNCHANGED <<session_vars, socket_vars>>

\* process_data.main, which needs a CSV file to be there
HasCsvFiles == participants_csv # <<>> \/ loot_csv # <<>>

\* python process_data.py: the data processor rewrites the JSON files
ProcessData ==
    /\ HasCsvFiles
    /\ \E json \in {DataProcessorRun(participants_csv, loot_csv)} :
          /\ player_info_json' = json.player_info
          /\ loot_history' = json.loot_history
          /\ raid_sessions' = json.raid_sessions
    /\ UNCHANGED <<participants_csv, loot_csv, cli, cli_scores, cli_recs,
                   cli_error, adapter, adapter_scores, adapter_recs, loads>>
    /\ UNCHANGED <<session_vars, socket_vars>>

\* POST /process-data: the data processor, then the adapter's load_data
ProcessDataEndpoint ==
    /\ HasCsvFiles
    /\ loads < MaxLoads
    /\ \E json \in {DataProcessorRun(participants_csv, loot_csv)} :
          /\ player_info_json' = json.player_info
          /\ loot_history' = json.loot_history
          /\ raid_sessions' = json.raid_sessions
          /\ adapter' = adapter_load_data(adapter, json.player_info,
                                          json.loot_history, json.raid_sessions)
    /\ loads' = loads + 1
    /\ UNCHANGED <<participants_csv, loot_csv, cli, cli_scores, cli_recs,
                   cli_error, adapter_scores, adapter_recs>>
    /\ UNCHANGED <<session_vars, socket_vars>>

\* GET /priorities: the adapter loads when it knows no player, then ranks
GetPriorities ==
    /\ DOMAIN adapter.player_info = {} => loads < MaxLoads
    /\ CanBroadcast
    /\ \E an \in {IF DOMAIN adapter.player_info = {}
                  THEN adapter_load_data(adapter, player_info_json,
                                         loot_history, raid_sessions)
                  ELSE adapter} :
          /\ adapter' = an
          /\ adapter_scores' = PlayerScores(an)
          /\ \E recommendations \in get_loot_priority_recommendations(an) :
                /\ adapter_recs' = recommendations
                /\ Broadcast(PrioritiesData(recommendations), session_objects)
    /\ loads' = IF DOMAIN adapter.player_info = {} THEN loads + 1 ELSE loads
    /\ UNCHANGED <<participants_csv, loot_csv, cli, cli_scores, cli_recs,
                   cli_error, loot_history, raid_sessions, player_info_json>>
    /\ UNCHANGED <<session_vars, handlers, peer_closed>>

Next == RunAnalysis \/ ProcessData \/ ProcessDataEndpoint \/ GetPriorities

Spec == Init /\ [][Next]_vars

-----------------------------------------------------------------------------
(* The command-line analyzer on the raid files of two resets: two players, *)
(* each in some of the raid instances, with the same items or none.        *)

MaxRaidsAttended == 5

RaidInstances ==
    <<F_MADNESS_2502, F_MADNESS, F_WAR_SPINE_2502, F_WAR_SPINE,
      F_25MAN_2502, F_25MAN>>

RaidsAttended ==
    {raids \in SUBSET (1..Len(RaidInstances)) :
        Cardinality(raids) <= MaxRaidsAttended}

\* the participants rows when albear is in the raids of first and borran in
\* those of second
RECURSIVE AttendanceRows(_, _, _)
AttendanceRows(first, second, i) ==
    IF i > Len(RaidInstances) THEN <<>>
    ELSE (IF i \in first THEN <<ParticipantRow(RaidInstances[i], "albear")>>
          ELSE <<>>)
         \o (IF i \in second
             THEN <<ParticipantRow(RaidInstances[i], "borran")>> ELSE <<>>)
         \o AttendanceRows(first, second, i + 1)

\* the loot rows: one item for someone else, or the same item for both
RaidsLoot ==
    {<<LootRow(F_25MAN, "saok", "Bottled Wishes")>>,
     <<LootRow(F_25MAN, "albear", "Souldrinker"),
       LootRow(F_25MAN, "borran", "Souldrinker")>>}

RaidsInit ==
    /\ \E first \in RaidsAttended, second \in RaidsAttended :
           participants_csv = AttendanceRows(first, second, 1)
    /\ loot_csv \in RaidsLoot
    /\ player_info_json = <<>>
    /\ loot_history = <<>>
    /\ raid_sessions = <<>>
    /\ cli = NewAnalyzer
    /\ cli_scores = <<>>
    /\ cli_recs = <<>>
    /\ cli_error = ""
    /\ adapter = NewAnalyzer
    /\ adapter_scores = <<>>
    /\ adapter_recs = <<>>
    /\ loads = 0
    /\ WebAppInit

RaidsSpec == RaidsInit /\ [][RunAnalysis]_vars

-----------------------------------------------------------------------------
(* The web application on a data directory that holds player_info.json and *)
(* raid_sessions.json but no loot_history.json: load_data reads each file  *)
(* that exists (lines 49, 54, 82).                                         *)

NoLootHistoryInit ==
    /\ participants_csv \in ParticipantSelections
    /\ loot_csv \in LootSelections
    /\ player_info_json = StoredPlayerInfo
    /\ loot_history = <<>>
    /\ raid_sessions = StoredRaidSessions
    /\ cli = NewAnalyzer
    /\ cli_scores = <<>>
    /\ cli_recs = <<>>
    /\ cli_error = ""
    /\ adapter = NewAnalyzer
    /\ adapter_scores = <<>>
    /\ adapter_recs = <<>>
    /\ loads = 0
    /\ WebAppInit

NoLootHistorySpec == NoLootHistoryInit /\ [][Next]_vars

-----------------------------------------------------------------------------
(* The command-line analyzer on files with partial rows: pandas reads an   *)
(* empty cell as NaN, here "".                                             *)

MaxPartialRows == 3

PartialParticipantRowPool ==
    << ParticipantRow(F_25MAN, "albear"),
       ParticipantRow(F_25MAN, ""),
       ParticipantRow(F_25MAN, "saoki") >>

PartialLootRowPool ==
    << LootRow(F_25MAN, "albear", "Hood of Hidden Flesh"),
       LootRow(F_25MAN, "", "Souldrinker"),
       LootRow(F_25MAN, "albear", ""),
       LootRow(F_25MAN, "saok", "Bottled Wishes"),
       LootRow(F_25MAN, "borran", "Gauntlets of the Corrupted Conqueror") >>

PartialRowsInit ==
    /\ participants_csv \in RowSelections(PartialParticipantRowPool,
                                          MaxPartialRows)
    /\ loot_csv \in RowSelections(PartialLootRowPool, MaxPartialRows)
    /\ player_info_json = <<>>
    /\ loot_history = <<>>
    /\ raid_sessions = <<>>
    /\ cli = NewAnalyzer
    /\ cli_scores = <<>>
    /\ cli_recs = <<>>
    /\ cli_error = ""
    /\ adapter = NewAnalyzer
    /\ adapter_scores = <<>>
    /\ adapter_recs = <<>>
    /\ loads = 0
    /\ WebAppInit

PartialRowsSpec == PartialRowsInit /\ [][RunAnalysis]_vars

-----------------------------------------------------------------------------
(* The system on files that spell one player in two ways, "saoki" and      *)
(* "saokipriest", the first entry of the manual alias table (line 30).     *)

MaxAliasRows == 3

AliasParticipantRowPool ==
    << ParticipantRow(F_WAR_SPINE, "saokipriest"),
       ParticipantRow(F_25MAN, "albear"),
       ParticipantRow(F_25MAN, "saoki") >>

AliasLootRowPool ==
    << LootRow(F_WAR_SPINE, "saokipriest", "Hood of Hidden Flesh"),
       LootRow(F_25MAN, "albear", "Crown of the Corrupted Vanquisher"),
       LootRow(F_25MAN, "saoki", "Bottled Wishes") >>

AliasInit ==
    /\ participants_csv \in RowSelections(AliasParticipantRowPool, MaxAliasRows)
    /\ loot_csv \in RowSelections(AliasLootRowPool, MaxAliasRows)
    /\ player_info_json = <<>>
    /\ loot_history = <<>>
    /\ raid_sessions = <<>>
    /\ cli = NewAnalyzer
    /\ cli_scores = <<>>
    /\ cli_recs = <<>>
    /\ cli_error = ""
    /\ adapter = NewAnalyzer
    /\ adapter_scores = <<>>
    /\ adapter_recs = <<>>
    /\ loads = 0
    /\ WebAppInit

AliasSpec == AliasInit /\ [][Next]_vars

-----------------------------------------------------------------------------
(* The command-line analyzer on loot files of weapons and tokens: items of  *)
(* the per-item table (lines 233-265), items that only a weapon keyword    *)
(* recognises, and items that extract_token_info takes for tokens.         *)

MaxWeaponRows == 3

WeaponLootRowPool ==
    << LootRow(F_25MAN, "albear", "Vishanka, Jaws of the Earth"),
       LootRow(F_25MAN, "albear", "Souldrinker"),
       LootRow(F_25MAN, "albear", "Stormwake Crossbow"),
       LootRow(F_25MAN, "borran", "Timepiece of the Bronze Flight"),
       LootRow(F_25MAN, "borran", "Elementium Shield"),
       LootRow(F_25MAN, "borran", "Twilight Greataxe"),
       LootRow(F_25MAN, "saoki", "Crown of the Corrupted Vanquisher"),
       LootRow(F_25MAN, "saoki", "Mantle of the Corrupted Vanquisher") >>

WeaponsInit ==
    /\ participants_csv \in RowSelections(<< ParticipantRow(F_25MAN, "albear"),
                                             ParticipantRow(F_25MAN, "borran") >>,
                                          MaxWeaponRows)
    /\ loot_csv \in RowSelections(WeaponLootRowPool, MaxWeaponRows)
    /\ player_info_json = <<>>
    /\ loot_history = <<>>
    /\ raid_sessions = <<>>
    /\ cli = NewAnalyzer
    /\ cli_scores = <<>>
    /\ cli_recs = <<>>
    /\ cli_error = ""
    /\ adapter = NewAnalyzer
    /\ adapter_scores = <<>>
    /\ adapter_recs = <<>>
    /\ loads = 0
    /\ WebAppInit

WeaponsSpec == WeaponsInit /\ [][RunAnalysis]_vars

-----------------------------------------------------------------------------
(* The command-line analyzer on files whose rows describe one player in    *)
(* several ways: under an alias of the manual table, with cells left       *)
(* empty, with another spec, in two rows of one file.                      *)

MaxProfileRows == 4

ProfileParticipantRowPool ==
    << ParticipantRow(F_25MAN, "borran"),
       ParticipantRow(F_25MAN, "borrann"),
       ParticipantRow(F_25MAN, "albear"),
       ParticipantRow(F_25MAN, "borran"),
       ParticipantRow(F_25MAN, "borrann") >>

ProfileLootRowPool ==
    << [LootRow(F_25MAN, "albear", "Souldrinker") EXCEPT !.Spec = "Guardian"],
       [LootRow(F_25MAN, "saoki", "Bottled Wishes") EXCEPT !.Class = "Priest"],
       LootRow(F_25MAN, "saokipriest", "Hood of Hidden Flesh"),
       LootRow(F_25MAN, "borran", "Souldrinker") >>

ProfilesInit ==
    /\ participants_csv \in RowSelections(ProfileParticipantRowPool,
                                          MaxProfileRows)
    /\ loot_csv \in RowSelections(ProfileLootRowPool, MaxProfileRows)
    /\ player_info_json = <<>>
    /\ loot_history = <<>>
    /\ raid_sessions = <<>>
    /\ cli = NewAnalyzer
    /\ cli_scores = <<>>
    /\ cli_recs = <<>>
    /\ cli_error = ""
    /\ adapter = NewAnalyzer
    /\ adapter_scores = <<>>
    /\ adapter_recs = <<>>
    /\ loads = 0
    /\ WebAppInit

ProfilesSpec == ProfilesInit /\ [][RunAnalysis]_vars

-----------------------------------------------------------------------------
(* The raid-session routes alone: no WebSocket client, so that every       *)
(* broadcast ends where it starts.                                         *)

RaidSessionInit ==
    /\ participants_csv = <<>>
    /\ loot_csv = <<>>
    /\ player_info_json = <<>>
    /\ loot_history = <<>>
    /\ raid_sessions = <<>>
    /\ cli = NewAnalyzer
    /\ cli_scores = <<>>
    /\ cli_recs = <<>>
    /\ cli_error = ""
    /\ adapter = NewAnalyzer
    /\ adapter_scores = <<>>
    /\ adapter_recs = <<>>
    /\ loads = 0
    /\ WebAppInit

RaidSessionNext ==
    StartRaid \/ EndRaid \/ AssignLoot \/ UpdateCurrentBoss \/ Tick

RaidSessionSpec == RaidSessionInit /\ [][RaidSessionNext]_vars

-----------------------------------------------------------------------------
(* The web application with WebSocket clients: the routes that broadcast,  *)
(* the handlers of two clients and the broadcasts in flight, interleaved   *)
(* at their awaits.  No data was processed: the priorities are empty.       *)

WebSocketInit ==
    /\ participants_csv = <<>>
    /\ loot_csv = <<>>
    /\ player_info_json = <<>>
    /\ loot_history = <<>>
    /\ raid_sessions = <<>>
    /\ cli = NewAnalyzer
    /\ cli_scores = <<>>
    /\ cli_recs = <<>>
    /\ cli_error = ""
    /\ adapter = NewAnalyzer
    /\ adapter_scores = <<>>
    /\ adapter_recs = <<>>
    /\ loads = 0
    /\ WebAppInit

WebSocketNext ==
    \/ \E c \in Clients : Connect(c)
    \/ \E c \in Clients : ResumeConnect(c)
    \/ \E c \in Clients : ReceiveText(c)
    \/ \E c \in Clients : ReceiveDisconnect(c)
    \/ \E c \in Clients : PeerClose(c)
    \/ ResumeBroadcast
    \/ Len(responses) < MaxSocketRequests
          /\ start_raid("Morchok", RaidParticipants)
    \/ Len(responses) < MaxSocketRequests /\ end_raid
    \/ Len(responses) < MaxSocketRequests
          /\ assign_loot("Souldrinker", "albear", "")
    \/ Len(responses) < MaxSocketRequests /\ update_current_boss("Ultraxion")
    \/ GetPriorities

WebSocketSpec == WebSocketInit /\ [][WebSocketNext]_vars

-----------------------------------------------------------------------------
(* Properties.                                                             *)

\* the identities of a recommendation sequence with their counts and scores
RecordSet(recs) ==
    {[Player |-> recs[i].Player, Bosses |-> recs[i].Bosses,
      Items_Received |-> recs[i].Items_Received,
      Priority_Score_Value |-> recs[i].Priority_Score_Value,
      Token_Priority_Score_Value |-> recs[i].Token_Priority_Score_Value,
      Score_Den |-> recs[i].Score_Den] : i \in 1..Len(recs)}

\* C1: every run starts from scratch.  A further command-line run on the
\* same files yields the same identities with the same scores and counts,
\* and a load_data of the adapter leaves the analyzer as a fresh analyzer is
\* after loading the same JSON files, so that ranking again gives the same
\* records.
C1_RunsRebuildFromScratch ==
    [][/\ cli_recs # <<>> => RecordSet(cli_recs') = RecordSet(cli_recs)
       /\ loads' = loads + 1 =>
              adapter' = adapter_load_data(NewAnalyzer, player_info_json',
                                           loot_history', raid_sessions')]_vars

\* raw names a and b match as identify_name_variations matches names
AliasMatch(a, b) ==
    \/ StartsWith(a, b)
    \/ StartsWith(b, a)
    \/ StripMarks(a) = StripMarks(b)

\* the lower-cased, stripped names of the participants rows
ParticipantRawNames ==
    {Strip(Lower(participants_csv[j].IGN)) : j \in 1..Len(participants_csv)}

\* a name with a PUG marker or on the exclusion list
HasPugMarker(name) ==
    \E marker \in pug_identifiers : Contains(Lower(marker), Lower(name))

OnExclusionList(name) ==
    \E excluded \in exclude_players : Lower(excluded) = Strip(Lower(name))

\* the raw names the files may hold, and those of them that are excluded
\* (computed once)
PoolNames ==
    {ParticipantRowPool[i].IGN : i \in 1..Len(ParticipantRowPool)}
    \cup {LootRowPool[i].IGN : i \in 1..Len(LootRowPool)}

ExcludedNames ==
    {name \in PoolNames : HasPugMarker(name) \/ OnExclusionList(name)}

LowerStripped == [name \in PoolNames |-> Strip(Lower(name))]

Excluded(name) == name \in ExcludedNames

\* C2: after a command-line run, a loot name that is in no participants
\* file and a participant name that prefix-match or diacritic-match resolve
\* to the same identity.
C2_AliasesResolveAlike ==
    cli.loot_data # <<>> =>
        \A i \in 1..Len(loot_csv), j \in 1..Len(participants_csv) :
            (/\ ~Excluded(loot_csv[i].IGN)
             /\ ~Excluded(participants_csv[j].IGN)
             /\ Strip(Lower(loot_csv[i].IGN)) \notin ParticipantRawNames
             /\ AliasMatch(Strip(Lower(loot_csv[i].IGN)),
                           Strip(Lower(participants_csv[j].IGN))))
            => normalize_name(cli, loot_csv[i].IGN)
                   = normalize_name(cli, participants_csv[j].IGN)

\* the raw names of the CSV files
RawNames ==
    {participants_csv[i].IGN : i \in 1..Len(participants_csv)}
    \cup {loot_csv[i].IGN : i \in 1..Len(loot_csv)}

\* no record of recs is for the raw name
NotRecommended(recs, name) ==
    \A i \in 1..Len(recs) :
        recs[i].IGN # name /\ recs[i].Player # LowerStripped[name]

\* C3: a raw name with a PUG marker or on the exclusion list is in no
\* recommendation sequence, the command-line analyzer's or the adapter's.
C3_ExcludedNeverRecommended ==
    \A name \in RawNames :
        Excluded(name) =>
            NotRecommended(cli_recs, name) /\ NotRecommended(adapter_recs, name)

\* C3 witness: a PUG with a participants row and a loot row was ingested on
\* both paths, and both paths recommend someone.
C3_Witness ==
    /\ \E i \in 1..Len(participants_csv) : participants_csv[i].IGN = "Zed-PUG"
    /\ \E i \in 1..Len(loot_csv) : loot_csv[i].IGN = "Zed-PUG"
    /\ "zed-pug" \in DOMAIN adapter.player_boss_attendance
    /\ "zed-pug" \in DOMAIN adapter.player_loot_count
    /\ adapter_recs # <<>>
    /\ cli_recs # <<>>

\* the identities of the non-excluded participants rows
AttendingIdentities ==
    {normalize_name(cli, participants_csv[i].IGN) :
        i \in {k \in 1..Len(participants_csv) :
                  ~Excluded(participants_csv[k].IGN)}}

\* the number of loot rows of an identity
LootRowCount(player) ==
    Cardinality({i \in 1..Len(loot_csv) :
                    /\ ~Excluded(loot_csv[i].IGN)
                    /\ normalize_name(cli, loot_csv[i].IGN) = player})

\* the recommendations are for exactly the identities of the non-excluded
\* participants rows, each once, with the number of its loot rows as items
\* received
OutputIsAttendingIdentities ==
    /\ {cli_recs[i].Player : i \in 1..Len(cli_recs)} = AttendingIdentities
    /\ Len(cli_recs) = Cardinality(AttendingIdentities)
    /\ \A i \in 1..Len(cli_recs) :
           cli_recs[i].Items_Received = LootRowCount(cli_recs[i].Player)

\* C4: after a command-line run that counted a loot row, the output is
\* exactly the known, non-excluded identities with an attendance record,
\* each once; one without loot is there with zero items, one with loot
\* only is not.
C4_OutputIsAttendingIdentities ==
    DOMAIN cli.player_loot_count # {} => OutputIsAttendingIdentities

\* C4 as stated, for every command-line run that read a participants file:
\* the output is exactly the identities with an attendance record.
C4_OutputOfEveryRun ==
    cli.raid_participants # <<>> => OutputIsAttendingIdentities

\* C4 witness: one identity is recommended with no item, another has loot
\* but no participants row.
C4_Witness ==
    /\ \E i \in 1..Len(cli_recs) : cli_recs[i].Items_Received = 0
    /\ \E player \in DOMAIN cli.player_loot_count :
           player \notin AttendingIdentities

\* an item of a token set
IsTokenItem(item) == extract_token_info(item)[1] # ""

\* the loot rows that an analyzer counts for a player
LootRowsOf(an, player) ==
    {i \in 1..Len(loot_csv) :
        /\ ~Excluded(loot_csv[i].IGN)
        /\ normalize_name(an, loot_csv[i].IGN) = player}

\* C5: the items are split by kind.  A scored player who received no token
\* item has no token penalty, and one who received only token items has no
\* regular penalty.
C5_PenaltiesSplitByItemKind ==
    \A player \in DOMAIN cli_scores :
        /\ (\A i \in LootRowsOf(cli, player) : ~IsTokenItem(loot_csv[i].Item))
               => cli_scores[player].token_item_penalty = 0
        /\ (\A i \in LootRowsOf(cli, player) : IsTokenItem(loot_csv[i].Item))
               => cli_scores[player].regular_item_penalty = 0

\* the scores of the records of recs are the formulas of the stored
\* attendance and penalties, over the common denominator of the record
ScoresFollowFormulas(recs, scores) ==
    \A i \in 1..Len(recs) :
        LET rec == recs[i]
            score == scores[rec.Player]
            bosses == Max(1, rec.Bosses)
        IN  /\ rec.Score_Den = AttendanceDen * 100 * bosses
            /\ rec.Attendance_Value = score.attendance
            /\ score.attendance_score_x10
                   = score.attendance * attendance_weight_x10
            /\ rec.Priority_Score_Value
                   = score.attendance_score_x10 * 10 * bosses
                     - score.regular_item_penalty * 10 * AttendanceDen
                     - score.token_item_penalty * token_penalty_reduction_x10
                         * AttendanceDen
            /\ rec.Token_Priority_Score_Value
                   = score.attendance_score_x10 * 10 * bosses
                     - score.token_item_penalty * 10 * AttendanceDen
                     - score.regular_item_penalty * token_penalty_reduction_x10
                         * AttendanceDen

\* C6: regularScore = attendanceScore - regularPenalty - tokenPenalty *
\* tokenPenaltyReduction, tokenScore = attendanceScore - tokenPenalty -
\* regularPenalty * tokenPenaltyReduction, attendanceScore = attendance *
\* attendanceWeight, and both scores are in the record of the identity.
C6_ScoreFormulas ==
    /\ ScoresFollowFormulas(cli_recs, cli_scores)
    /\ ScoresFollowFormulas(adapter_recs, adapter_scores)

\* C6 witness: a record of the command-line run has a token penalty and a
\* record of the adapter has a regular penalty, so that the two scores of
\* a record differ.
C6_Witness ==
    /\ \E i \in 1..Len(cli_recs) :
           /\ cli_scores[cli_recs[i].Player].token_item_penalty > 0
           /\ cli_recs[i].Priority_Score_Value
                  # cli_recs[i].Token_Priority_Score_Value
    /\ \E i \in 1..Len(adapter_recs) :
           /\ adapter_scores[adapter_recs[i].Player].regular_item_penalty > 0
           /\ adapter_recs[i].Priority_Score_Value
                  # adapter_recs[i].Token_Priority_Score_Value

\* C7: for every identity the sum of the slot counters is at most the
\* number of items received, in the command-line analyzer and in the
\* adapter's.
C7_SlotCountersAtMostTotal ==
    \A an \in {cli, adapter} :
        \A player \in DOMAIN an.player_item_slots :
            SumValues(an.player_item_slots[player])
                <= Get(an.player_loot_count, player, 0)

\* a CSV item that neither classifier of the analyzer puts in a slot
IsUnclassified(item) ==
    /\ determine_item_slot(item) = "unknown"
    /\ extract_token_info(item)[2] \in {"", "unknown"}

\* the records of a loot history for a player
RecordsOf(history, player) ==
    {i \in 1..Len(history) : Get(history[i], "player", "") = player}

\* a JSON loot record with unknown or absent slot
SlotUnknownOrAbsent(loot) ==
    "item_slot" \notin DOMAIN loot \/ loot.item_slot = "unknown"

ConfiguredWeight_x10(player_token, slot) ==
    IF /\ player_token \in DOMAIN token_slot_importance_x10
       /\ Lower(slot) \in DOMAIN token_slot_importance_x10[player_token]
    THEN token_slot_importance_x10[player_token][Lower(slot)]
    ELSE slot_categories_x10[Lower(slot)]

\* C9: the penalties of a scored player whose slot names all are configured
\* slots, whatever their letter case, sum the counts times the penalty
\* multiplier times the configured weight of the slot, for the slot names
\* of the analyzer and for those the adapter loads.
C9_ConfiguredSlotWeights ==
    \A an \in {cli, adapter} :
        \A player \in ScoredPlayers(an) :
            LET slots == Get(an.player_item_slots, player, <<>>)
            IN  (\A slot \in DOMAIN slots :
                     Lower(slot) \in DOMAIN slot_categories_x10)
                => regular_item_penalty(an, player)
                       + token_item_penalty(an, player)
                   = SumSet([slot \in DOMAIN slots |->
                                slots[slot] * item_penalty_multiplier *
                                ConfiguredWeight_x10(
                                    an.player_info[player].Token, slot)],
                            DOMAIN slots)

\* the bosses of the 25-man sessions that list the player
SessionBosses25(sessions, player) ==
    SumSet([i \in 1..Len(sessions) |->
               bosses_count(sessions[i].raid_type) *
               Cardinality({j \in 1..Len(sessions[i].participants) :
                               sessions[i].participants[j] = player})],
           {i \in 1..Len(sessions) : Contains("25man", sessions[i].raid_type)})

\* the bosses of the 25-man participants files that list the player
FileBosses25(an, player) ==
    SumSet([k \in 1..Len(FileBases) |->
               BossesKilled(ParticipantsFile(FileBases[k]))],
           {k \in 1..Len(FileBases) :
               /\ Contains("25man", FileBases[k])
               /\ \E i \in 1..Len(participants_csv) :
                      /\ participants_csv[i].file = FileBases[k]
                      /\ ~Excluded(participants_csv[i].IGN)
                      /\ normalize_name(an, participants_csv[i].IGN) = player})

\* bosses / total * 100 * (1 + bonus * 25-man bosses / total), times total^2
AttendanceFormula(bosses, bosses_25) ==
    bosses * (100 * total_bosses + raid_25_percent_bonus_x100 * bosses_25)

\* C10: the attendance percentage of every scored identity is bosses /
\* total * 100 * (1 + bonusRate * 25-man bosses / total), after a
\* command-line run over the participants files and after the adapter's
\* first load over the sessions of raid_sessions.json.
C10_AttendanceFormula ==
    [][/\ \A player \in DOMAIN cli_scores' :
              cli_scores'[player].attendance
                  = AttendanceFormula(cli'.player_boss_attendance[player],
                                      FileBosses25(cli', player))
       /\ (loads = 0 /\ loads' = 1 /\ raid_sessions' = raid_sessions) =>
              \A player \in DOMAIN adapter_scores' :
                  adapter_scores'[player].attendance
                      = AttendanceFormula(
                            adapter'.player_boss_attendance[player],
                            SessionBosses25(raid_sessions, player))]_vars

\* the boss-kill count of the fixed tag table for a source tag
TableBosses(tag) ==
    IF Contains("25man_58", tag) THEN 5
    ELSE IF Contains("10man_war_spine", tag) THEN 2
    ELSE IF Contains("10man_madness", tag) THEN 1
    ELSE 0

\* the table's bosses of the participants rows of a player
RowTableBosses(an, player) ==
    SumSet([i \in 1..Len(participants_csv) |->
               TableBosses(participants_csv[i].file)],
           {i \in 1..Len(participants_csv) :
               /\ ~Excluded(participants_csv[i].IGN)
               /\ normalize_name(an, participants_csv[i].IGN) = player})

\* the table's bosses of the session entries of a player
SessionTableBosses(sessions, player) ==
    SumSet([i \in 1..Len(sessions) |->
               TableBosses(sessions[i].raid_type) *
               Cardinality({j \in 1..Len(sessions[i].participants) :
                               sessions[i].participants[j] = player})],
           1..Len(sessions))

\* C11: the bosses attended of an identity are the sum, over its
\* participation records, of the table's count for the record's tag, 0 for
\* a tag the table does not match: after a command-line run over the
\* participants rows, and after the adapter's first load over the sessions.
C11_BossesFromTagTable ==
    [][/\ \A player \in DOMAIN cli'.player_boss_attendance :
              cli'.player_boss_attendance[player]
                  = RowTableBosses(cli', player)
       /\ (loads = 0 /\ loads' = 1) =>
              \A player \in DOMAIN adapter'.player_boss_attendance :
                  adapter'.player_boss_attendance[player]
                      = SessionTableBosses(raid_sessions', player)]_vars

\* the item tallies of two players are the same
SameItemTallies(an, p, q) ==
    /\ Get(an.player_loot_count, p, 0) = Get(an.player_loot_count, q, 0)
    /\ Get(an.player_item_slots, p, <<>>) = Get(an.player_item_slots, q, <<>>)
    /\ Get(an.player_token_count, p, <<>>) = Get(an.player_token_count, q, <<>>)

\* C12: of two scored identities with the same item tallies, the one with
\* strictly more bosses attended has a strictly higher attendance score and
\* a regular score that is higher or equal.
C12_ScoreMonotoneInBosses ==
    \A p \in DOMAIN cli_scores, q \in DOMAIN cli_scores :
        (/\ SameItemTallies(cli, p, q)
         /\ cli.player_boss_attendance[p] > cli.player_boss_attendance[q])
        => /\ cli_scores[p].attendance_score_x10
                  > cli_scores[q].attendance_score_x10
           /\ cli_scores[p].regular_score * cli_scores[q].bosses_attended
                  >= cli_scores[q].regular_score * cli_scores[p].bosses_attended

\* C13: a scored identity that attended 8 of the 8 campaign bosses and
\* received no item has an attendance of 100 percent, which the weight 0.5
\* turns into the attendance score 50 (attendance * 5 = 50 * 10, over
\* AttendanceDen), no penalty, and a regular score equal to its attendance
\* score.
C13_FullAttendanceNoItems ==
    \A player \in DOMAIN cli_scores :
        (/\ cli.player_boss_attendance[player] = total_bosses
         /\ Get(cli.player_loot_count, player, 0) = 0)
        => /\ cli_scores[player].attendance * 5 = 50 * 10 * AttendanceDen
           /\ cli_scores[player].regular_item_penalty = 0
           /\ cli_scores[player].regular_score
                  = cli_scores[player].attendance_score_x10 * 10
                    * cli_scores[player].bosses_attended

\* record a has at least the priority score of record b; the scores are
\* over ScoreDen(bosses), compared over their common part
RecordGE(a, b) ==
    a.Priority_Score_Value * (b.Score_Den \div ScoreDen(1))
        >= b.Priority_Score_Value * (a.Score_Den \div ScoreDen(1))

Descending(recs) ==
    \A i \in 1..(Len(recs) - 1) : RecordGE(recs[i], recs[i + 1])

PositionIn(seq, x) == CHOOSE i \in 1..Len(seq) : seq[i] = x

\* sorted keeps the players of equal score in the order in which the
\* scorer visited them
KeepsScoringOrder(order, scores, sorted) ==
    \A i, j \in 1..Len(sorted) :
        (/\ i < j
         /\ ScoreGE(scores[sorted[i]], scores[sorted[j]])
         /\ ScoreGE(scores[sorted[j]], scores[sorted[i]]))
        => PositionIn(order, sorted[i]) < PositionIn(order, sorted[j])

StableDescending(scores, recs) ==
    /\ Descending(recs)
    /\ \A order \in Orders(DOMAIN scores) :
          \E sorted \in {sorted_players(order, scores, Len(order))} :
              /\ Len(sorted) = Len(order)
              /\ \A i \in 1..(Len(sorted) - 1) :
                     ScoreGE(scores[sorted[i]], scores[sorted[i + 1]])
              /\ KeepsScoringOrder(order, scores, sorted)
    /\ \E order \in Orders(DOMAIN scores) :
          [i \in 1..Len(recs) |-> recs[i].Player]
              = sorted_players(order, scores, Len(order))

\* C14: the recommendation sequence is ordered by the regular score,
\* descending: each record's score is at least the next one's, and the
\* players of equal score stay in the order in which they were scored
\* (the sort is stable), in the command-line run and behind GET /priorities.
C14_OrderedByRegularScore ==
    /\ StableDescending(cli_scores, cli_recs)
    /\ StableDescending(adapter_scores, adapter_recs)

\* players of equal score are recommended by the command-line run, players
\* of different scores behind GET /priorities
C14_Witness ==
    /\ \E i \in 1..(Len(cli_recs) - 1) :
           RecordGE(cli_recs[i], cli_recs[i + 1])
           /\ RecordGE(cli_recs[i + 1], cli_recs[i])
    /\ \E i \in 1..(Len(adapter_recs) - 1) :
           ~RecordGE(adapter_recs[i + 1], adapter_recs[i])

\* the numbered list of the report that ranks the players of a token set,
\* of a primary stat, of a role
TokenRanking(recs, token) == token_players(recs, token)

StatRanking(recs, stat) ==
    IF stat = "Intellect" THEN intellect_players(recs)
    ELSE stat_players(recs, stat)

RoleRanking(recs, role) ==
    IF role = "Healer" THEN healer_players(recs)
    ELSE IF role \in {"Main Tank", "Offtank"} THEN tank_players(recs)
    ELSE <<>>

\* the 1-based ranks of a player in a numbered list
RanksIn(ranking, player) ==
    {i \in 1..Len(ranking) : ranking[i].Player = player}

RankedOnce(ranking, player) == Cardinality(RanksIn(ranking, player)) = 1

\* C15: rank completeness: every identity in the output of a command-line
\* run has exactly one overall rank and exactly one 1-based rank in the list
\* of its token set, in the list of its primary stat and in the list of its
\* role; no member of a cohort is left without a rank in it.
C15_RankCompleteness ==
    \A i \in 1..Len(cli_recs) :
        \E rec \in {cli_recs[i]} :
            /\ RankedOnce(cli_recs, rec.Player)
            /\ rec.Token \in {"Vanquisher", "Conqueror", "Protector"}
                   => RankedOnce(TokenRanking(cli_recs, rec.Token), rec.Player)
            /\ rec.Stat \in {"Strength", "Agility", "Intellect"}
                   => RankedOnce(StatRanking(cli_recs, rec.Stat), rec.Player)
            /\ rec.Role \in {"Healer", "DPS", "Main Tank", "Offtank"}
                   => RankedOnce(RoleRanking(cli_recs, rec.Role), rec.Player)

HasName(row) == ~IsNaN(row.IGN)

HasNameAndItem(row) == ~IsNaN(row.IGN) /\ ~IsNaN(row.Item)

\* the tallies of an analyzer: items, slot counters, token counts, attendance
Tallies(an) ==
    <<an.player_loot_count, an.player_item_slots, an.player_token_count,
      an.player_boss_attendance>>

\* C17: a partial record never aborts a command-line run, and a record that
\* misses the name or the item is skipped: the run completes and its
\* tallies (items, slot counters, token counts, attendance) are those of a
\* run on the files without these records.
C17_PartialRecordsSkipped ==
    /\ cli_error = ""
    /\ cli # NewAnalyzer =>
           \E run \in analyze(SelectSeq(participants_csv, HasName),
                              SelectSeq(loot_csv, HasNameAndItem)) :
               Tallies(run.analyzer) = Tallies(cli)

\* C18: "Crown of the Corrupted Vanquisher" is a token of slot head for
\* every classifier: the analyzer's extract_token_info and
\* determine_item_slot on the loot rows, and the data processor's type and
\* slot in the loot history it writes (slot names compared without case).
C18_CrownIsHeadToken ==
    /\ \A i \in 1..Len(loot_csv) :
           loot_csv[i].Item = "Crown of the Corrupted Vanquisher"
           => /\ extract_token_info(loot_csv[i].Item) = <<"Vanquisher", "head">>
              /\ determine_item_slot(loot_csv[i].Item) = "head"
    /\ \A i \in 1..Len(loot_history) :
           loot_history[i].item = "Crown of the Corrupted Vanquisher"
           => /\ loot_history[i].item_type = "token"
              /\ Lower(loot_history[i].item_slot) = "head"

\* the two spellings of the player of the manual alias table's first entry
SaokiNames == {"saoki", "saokipriest"}

\* the bosses of the participants rows, and the loot rows, that carry
\* either spelling
SaokiBosses ==
    SumSet([i \in 1..Len(participants_csv) |->
                TableBosses(participants_csv[i].file)],
           {i \in 1..Len(participants_csv) :
                participants_csv[i].IGN \in SaokiNames})

SaokiItems ==
    Cardinality({i \in 1..Len(loot_csv) : loot_csv[i].IGN \in SaokiNames})

\* an analyzer holds one attendance tally and one item tally for the two
\* spellings, with the records of both
OneCombinedTally(an) ==
    /\ Cardinality(DOMAIN an.player_boss_attendance \cap SaokiNames) <= 1
    /\ Cardinality(DOMAIN an.player_loot_count \cap SaokiNames) <= 1

\* C19: "saoki" and "saokipriest" resolve to the same identity, and the
\* loot and attendance records that carry either name are combined into one
\* attendance tally and one item tally, by the command-line analyzer and by
\* the data processor with the adapter.
C19_SaokiAliasesCombine ==
    /\ normalize_name(cli, "saoki") = normalize_name(cli, "saokipriest")
    /\ OneCombinedTally(cli)
    /\ cli # NewAnalyzer =>
           /\ Get(cli.player_boss_attendance, "saokipriest", 0) = SaokiBosses
           /\ Get(cli.player_loot_count, "saokipriest", 0) = SaokiItems
    /\ OneCombinedTally(adapter)

\* the weapon subtype an item is recognised as, "" when it is none: by the
\* per-item table, else (the item being no token and no trinket) by the
\* first weapon type with a keyword in the name
SubtypeOfLower(item_name, lower) ==
    IF lower \in DOMAIN specific_item_mappings
    THEN (IF specific_item_mappings[lower] \in WeaponTypeNames
          THEN specific_item_mappings[lower] ELSE "")
    ELSE IF IsTokenItem(item_name) \/ AnyKeywordIn(TrinketKeywords, lower)
            \/ FirstMatch(weapon_types, lower) = 0
    THEN ""
    ELSE weapon_types[FirstMatch(weapon_types, lower)][1]

WeaponSubtype(item_name) == SubtypeOfLower(item_name, Lower(item_name))

\* the slot the weighting is to use for a weapon subtype
CoarseSlot(subtype) ==
    IF subtype \in {"bow", "gun", "crossbow", "wand", "thrown"} THEN "ranged"
    ELSE IF subtype \in {"shield", "off_hand"} THEN "off-hand"
    ELSE "weapon"

\* C20: every item recognised as a weapon, by a weapon keyword or through
\* the per-item table, gets slot ranged for the subtypes bow, gun, crossbow,
\* wand and thrown, slot off-hand for shield and off-hand, and slot weapon
\* otherwise; a run counts each weapon of its loot rows in that slot.
C20_WeaponSubtypeResolution ==
    \A i \in 1..Len(loot_csv) :
        \E subtype \in {WeaponSubtype(loot_csv[i].Item)} :
            (cli # NewAnalyzer /\ subtype # "") =>
                /\ determine_item_slot(loot_csv[i].Item) = CoarseSlot(subtype)
                /\ \A player \in DOMAIN cli.player_loot_count :
                       player = normalize_name(cli, loot_csv[i].IGN)
                       => Get(Get(cli.player_item_slots, player, <<>>),
                              CoarseSlot(subtype), 0) >= 1

\* the slot counters a run holds for the player of a loot row
SlotCountersOf(an, row) ==
    DOMAIN Get(an.player_item_slots, normalize_name(an, row.IGN), <<>>)

\* C21: classifier tier precedence: when the token rule recognises an item,
\* its token slot is the slot the classifier returns, whatever the per-item
\* table and the keyword tables say, and the keyword scan gives a slot only
\* to items that are neither tokens nor in the per-item table; a run counts
\* a token in no slot but its token slot.
C21_TokenRuleFirst ==
    \A i \in 1..Len(loot_csv) :
        \E token_info \in {extract_token_info(loot_csv[i].Item)} :
            (cli # NewAnalyzer /\ token_info[1] # "") =>
                /\ determine_item_slot(loot_csv[i].Item) = token_info[2]
                /\ (\A j \in 1..Len(loot_csv) :
                        loot_csv[j].Item = loot_csv[i].Item)
                   => SlotCountersOf(cli, loot_csv[i])
                          \subseteq {token_info[2]} \ {"unknown"}

\* the rows that write profiles, in the order load_data reads them: the
\* consolidated participants table, then the loot files
RECURSIVE RowsOfFiles(_, _)
RowsOfFiles(files, i) ==
    IF i > Len(files) THEN <<>>
    ELSE files[i].rows \o RowsOfFiles(files, i + 1)

ProfileRows ==
    all_participants_csv(participants_csv) \o RowsOfFiles(LootFiles(loot_csv, 1), 1)

\* the last known value that the rows up to row i write to a field of a
\* player's profile, "Unknown" when they write none
RECURSIVE LastKnown(_, _, _, _, _)
LastKnown(an, rows, player, field, i) ==
    IF i = 0 THEN "Unknown"
    ELSE IF extract_player_name(an, rows[i]) = player /\ ~IsNaN(rows[i][field])
    THEN rows[i][field]
    ELSE LastKnown(an, rows, player, field, i - 1)

\* C22: profile merge: whatever rows of the consolidated participants
\* table and of the loot files resolve to an identity, each field of its
\* profile (class, spec, role, token set) holds the last known value
\* written for it, and a known value is never replaced by "Unknown".
C22_ProfileKeepsLastKnown ==
    \A player \in DOMAIN cli.player_info \ {"ooverdeath"} :
        \A field \in {"Class", "Spec", "Role", "Token"} :
            cli.player_info[player][field]
                = LastKnown(cli, ProfileRows, player, field, Len(ProfileRows))

\* C23: for every identity, the bosses attended are at most the campaign's
\* boss count (8) times the number of participation files the run ingested
\* (all_participants.csv counted with the raid files), also when a file
\* lists the identity in several rows or under two aliases.
C23_BossesAtMostTotalPerRaid ==
    \A player \in DOMAIN cli.player_boss_attendance :
        cli.player_boss_attendance[player]
            <= total_bosses * Len(cli.raid_participants)


(* lines 629-640: items per boss of each player with a loot count, as the
   pair <<items, bosses>>; 0 when no boss was attended *)
calculate_loot_per_boss(an) ==
    [player \in DOMAIN an.player_loot_count |->
        IF Get(an.player_boss_attendance, player, 0) > 0
        THEN << an.player_loot_count[player],
                an.player_boss_attendance[player] >>
        ELSE << 0, 1 >>]

\* the penalties of a score are not negative, no score is above the
\* attendance score, and the divisor is at least 1
BoundedScores(scores) ==
    \A player \in DOMAIN scores :
        \E score \in {scores[player]} :
            /\ score.regular_item_penalty >= 0
            /\ score.token_item_penalty >= 0
            /\ score.regular_score
                   <= score.attendance_score_x10 * 10 * score.bosses_attended
            /\ score.token_score
                   <= score.attendance_score_x10 * 10 * score.bosses_attended
            /\ score.bosses_attended >= 1

\* a player of no boss is scored with the divisor 1
ZeroBossesDivisorOne ==
    \A player \in DOMAIN cli_scores :
        cli.player_boss_attendance[player] = 0
            => cli_scores[player].bosses_attended = 1

\* a loot-per-boss quotient never has divisor 0 and is 0 without bosses
SafeLootPerBoss(an) ==
    \A player \in DOMAIN an.player_loot_count :
        \E per_boss \in {calculate_loot_per_boss(an)[player]} :
            /\ per_boss[2] >= 1
            /\ Get(an.player_boss_attendance, player, 0) = 0
               => per_boss[1] = 0

\* C24: for every scored identity both penalties are at least 0, so neither
\* the regular nor the token score exceeds the attendance score; the
\* divisor is never 0: an identity with 0 bosses is scored with divisor 1
\* and has 0 items per boss.
C24_PenaltiesNonNegative ==
    /\ BoundedScores(cli_scores)
    /\ BoundedScores(adapter_scores)
    /\ ZeroBossesDivisorOne
    /\ SafeLootPerBoss(cli)
    /\ SafeLootPerBoss(adapter)

\* a scored identity of no boss, an identity with loot and no boss, and
\* scored identities with a token penalty and with a regular penalty
C24_Witness ==
    /\ \E player \in DOMAIN cli_scores :
           /\ cli.player_boss_attendance[player] = 0
           /\ cli_scores[player].bosses_attended = 1
    /\ \E player \in DOMAIN cli.player_loot_count :
           /\ Get(cli.player_boss_attendance, player, 0) = 0
           /\ cli.player_loot_count[player] > 0
    /\ \E player \in DOMAIN cli_scores :
           /\ cli_scores[player].token_item_penalty > 0
           /\ cli_scores[player].token_score
                  < cli_scores[player].attendance_score_x10 * 10
                        * cli_scores[player].bosses_attended
    /\ \E player \in DOMAIN adapter_scores :
           /\ adapter_scores[player].regular_item_penalty > 0
           /\ adapter_scores[player].regular_score
                  < adapter_scores[player].attendance_score_x10 * 10
                        * adapter_scores[player].bosses_attended


\* the responses that say success, to the requests of `requests`
Successes(requests) ==
    {i \in 1..Len(responses) :
        /\ responses[i].request \in requests
        /\ responses[i].status = "success"}

\* the start_raid and end_raid that succeeded alternate, start_raid first,
\* and the session is active after a start_raid and not after an end_raid
OneSessionAtATime ==
    /\ \A i \in Successes({"start_raid", "end_raid"}) :
           \E before \in {{j \in Successes({"start_raid", "end_raid"}) : j < i}} :
               responses[i].request =
                   IF before = {} \/ (\E j \in before :
                                         /\ \A k \in before : k <= j
                                         /\ responses[j].request = "end_raid")
                   THEN "start_raid" ELSE "end_raid"
    /\ Session.active <=>
           Cardinality(Successes({"start_raid"}))
               = Cardinality(Successes({"end_raid"})) + 1

\* every accepted loot assignment has a start_raid that succeeded before it
\* and no end_raid that succeeded in between
AssignedDuringRaid ==
    \A i \in Successes({"assign_loot"}) :
        \E j \in Successes({"start_raid"}) :
            /\ j < i
            /\ \A k \in Successes({"end_raid"}) : ~(j < k /\ k < i)

\* the step is a call of a raid-session route against its precondition:
\* start_raid with a raid active, another route with none
Unmet ==
    /\ Len(responses') = Len(responses) + 1
    /\ \E request \in {responses'[Len(responses')].request} :
           IF request = "start_raid" THEN Session.active ELSE ~Session.active

\* C25: a raid-session route called against its precondition (start_raid
\* with a raid active; end_raid, assign_loot, update_current_boss with none)
\* answers with an error and leaves the session, the saved records and the
\* last messages as they are; raids do not overlap, and a loot assignment
\* is accepted only between a start_raid that succeeded and the next
\* end_raid that succeeded.
C25_PreconditionsEnforced ==
    [][/\ Unmet =>
              /\ responses'[Len(responses')].status = "error"
              /\ UNCHANGED <<active_raid_session, session_objects, raid_logs,
                             last_messages>>
       /\ OneSessionAtATime'
       /\ AssignedDuringRaid']_vars

\* both kinds of call against the precondition were answered, and a loot
\* assignment was accepted
C25_Witness ==
    /\ \E i \in 1..Len(responses) :
           /\ responses[i].request = "start_raid"
           /\ responses[i].status = "error"
    /\ \E i \in 1..Len(responses) :
           /\ responses[i].request \in {"end_raid", "assign_loot",
                                        "update_current_boss"}
           /\ responses[i].status = "error"
    /\ Successes({"assign_loot"}) # {}


\* the loot assignments accepted in the responses after number `first` and
\* before number `last`, in their order
AcceptedBetween(first, last) ==
    LET accepted == SelectSeq(SubSeq(responses, first + 1, last - 1),
                              LAMBDA response :
                                  /\ response.request = "assign_loot"
                                  /\ response.status = "success")
    IN  [k \in 1..Len(accepted) |-> accepted[k].loot_assignment]

\* the start_raid that the end_raid of response number `last` ended
MatchingStart(last) ==
    CHOOSE first \in Successes({"start_raid"}) :
        /\ first < last
        /\ \A other \in Successes({"start_raid"}) :
               other < last => other <= first

\* a session that is not active has no start time, no boss, no participants
\* and no loot assignments
InactiveIsEmpty == ~Session.active => Session = InactiveSession

\* the record an end_raid returned has the assignments accepted since its
\* start_raid, in their order, and the participants and the start time of
\* that start_raid
ReturnedRecords ==
    \A last \in Successes({"end_raid"}) :
        \E first \in {MatchingStart(last)} :
            /\ responses[last].session.loot_assignments
                   = AcceptedBetween(first, last)
            /\ responses[last].session.participants
                   = responses[first].session.participants
            /\ responses[last].session.start_time
                   = responses[first].session.start_time

\* a file of data/raid_logs holds the record that the last end_raid of its
\* second returned
SavedRecords ==
    \A time \in DOMAIN raid_logs :
        \E last \in Successes({"end_raid"}) :
            /\ responses[last].end_time = << time >>
            /\ \A later \in Successes({"end_raid"}) :
                   responses[later].end_time = << time >> => later <= last
            /\ raid_logs[time].session = responses[last].session
            /\ raid_logs[time].end_time = responses[last].end_time

\* a start_raid or an assign_loot changes no saved or returned record
KeptLater ==
    (/\ Len(responses') = Len(responses) + 1
     /\ responses'[Len(responses')].request \in {"start_raid", "assign_loot"})
        => /\ raid_logs' = raid_logs
           /\ SubSeq(responses', 1, Len(responses)) = responses

\* C26: while no raid is active the session has no start time, no current
\* boss, no participants and no loot assignments; the record that an
\* end_raid saves and returns holds exactly the loot assignments accepted
\* since its start_raid, in the order of their acceptance, and no later
\* start_raid or assign_loot changes it.
C26_SavedRecordIsTheRaid ==
    /\ [](InactiveIsEmpty /\ ReturnedRecords /\ SavedRecords)
    /\ [][KeptLater]_vars

\* a record with an assignment was saved, and a raid was started and loot
\* assigned after it
C26_Witness ==
    \E last \in Successes({"end_raid"}) :
        /\ Len(responses[last].session.loot_assignments) > 0
        /\ \E time \in DOMAIN raid_logs :
               raid_logs[time].session = responses[last].session
        /\ \E later \in Successes({"start_raid"}) : later > last
        /\ \E later \in Successes({"assign_loot"}) : later > last


\* the messages that connect sent to the client, in their order
Replayed(c) ==
    SelectSeq(received[c], LAMBDA message : message.via = "connect")

\* connect sent one message of each type that had been broadcast
ReplayedEachType(c) ==
    \A type \in handlers[c].known :
        Cardinality({i \in 1..Len(Replayed(c)) :
                        Replayed(c)[i].type = type}) = 1

\* the data connect sent are the data as they were broadcast
ReplayedAsBroadcast(c) ==
    \A i \in 1..Len(Replayed(c)) :
        Replayed(c)[i].data = Replayed(c)[i].as_broadcast

\* C27: a client that has connected has received, for each of the message
\* types raid_status, loot_assignment and priorities that was broadcast
\* before, one message with the data of the last broadcast of that type, as
\* they were when broadcast: also when the data were an empty list, and
\* when the raid session was changed after the broadcast.
C27_ReplayOnConnect ==
    \A c \in Clients :
        (handlers[c].pc = "listening" /\ ~peer_closed[c])
            => ReplayedEachType(c) /\ ReplayedAsBroadcast(c)


\* how many times the broadcast sent to the client
TimesSent(task, c) ==
    Cardinality({i \in 1..Len(task.sent) : task.sent[i] = c})

\* C28: a broadcast sends its message exactly once to every client that is
\* connected from its start to its end, also when other clients connect,
\* disconnect or are removed by another broadcast while it is suspended in
\* a send; the clients it removes are those to which its send failed.
C28_BroadcastReachesAll ==
    /\ \A c \in finished.at_start \cap finished.at_end :
           TimesSent(finished, c) = 1
    /\ \A c \in SeqRange(finished.disconnected) :
           /\ peer_closed[c]
           /\ c \notin finished.at_end
           /\ TimesSent(finished, c) = 0


\* C29: when handle_websocket has ended for a client, for whatever reason,
\* the client is not among the active connections; and no client is among
\* them more than once.
C29_EndedIsDisconnected ==
    /\ \A c \in Clients :
           handlers[c].pc = "ended" => c \notin SeqRange(active_connections)
    /\ \A i, j \in 1..Len(active_connections) :
           active_connections[i] = active_connections[j] => i = j


\* the lower-cased names of the participants files of the raid of `key`
\* (raid type, boss group, date), in the order of the files
RECURSIVE ListedParticipants(_, _, _)
ListedParticipants(files, key, i) ==
    IF i > Len(files) THEN <<>>
    ELSE (IF RaidKey(extract_raid_info_from_filename(files[i].filename)) = key
          THEN SessionParticipants(files[i].rows, 1)
          ELSE <<>>) \o ListedParticipants(files, key, i + 1)

\* the session is of a raid whose file names tell the raid type, the boss
\* group and the date
NamedRaid(session) ==
    /\ session.raid_type # "Unknown"
    /\ session.boss # "Unknown"
    /\ session.date # "Unknown"

\* C30: every raid session that the data processor generates from a loot
\* file whose name tells the raid type, the boss group and the date has as
\* its participants the lower-cased names of the participants file of that
\* raid; so, when the adapter has loaded the sessions, each of these
\* participants has attended more than 0 bosses.
C30_SessionsListParticipants ==
    (HasCsvFiles
     /\ raid_sessions
            = DataProcessorRun(participants_csv, loot_csv).raid_sessions)
        => \A i \in 1..Len(raid_sessions) :
               NamedRaid(raid_sessions[i]) =>
                   \E listed \in {ListedParticipants(
                                      ParticipantFiles(participants_csv),
                                      << raid_sessions[i].raid_type,
                                         raid_sessions[i].boss,
                                         raid_sessions[i].date >>, 1)} :
                       /\ raid_sessions[i].participants = listed
                       /\ loads > 0 =>
                              \A j \in 1..Len(listed) :
                                  Get(adapter.player_boss_attendance,
                                      listed[j], 0) > 0

====
